---------------------------- MODULE Spec2Model ----------------------------
(***************************************************************************)
(* A model of the voice agent's function-calling core:                     *)
(*   - CafeKioskSystem (src/src/cafe_system.py): the order cart,           *)
(*   - RobotController (src/src/hri_functions.py): the robot,              *)
(*   - the dispatch bridges (src/src/unified_voice_agent.py,               *)
(*     src/src/voice_agent.py, src/src/cafe_voice_agent.py,                *)
(*     src/voice_cafe_kiosk_demo.py).                                      *)
(* Every handler is an asyncio coroutine: it runs atomically up to an      *)
(* await that really suspends (asyncio.sleep), so a handler with a sleep   *)
(* is two actions (up to the sleep, after the sleep) and every other       *)
(* handler is one action.                                                  *)
(***************************************************************************)
EXTENDS Integers, Sequences, FiniteSets, TLC

(***************************************************************************)
(* Strings that the code searches (item names) are sequences of            *)
(* characters, so that str.lower() and the `in` substring test are         *)
(* computed as Python computes them.                                       *)
(***************************************************************************)
UpperCase == <<"A","B","C","D","E","F","G","H","I","J","K","L","M",
               "N","O","P","Q","R","S","T","U","V","W","X","Y","Z">>
LowerCase == <<"a","b","c","d","e","f","g","h","i","j","k","l","m",
               "n","o","p","q","r","s","t","u","v","w","x","y","z">>

LowerChar(c) ==
    IF \E i \in 1..Len(UpperCase) : UpperCase[i] = c
    THEN LowerCase[CHOOSE i \in 1..Len(UpperCase) : UpperCase[i] = c]
    ELSE c

(* str.lower() *)
Lower(s) == [i \in 1..Len(s) |-> LowerChar(s[i])]

(* a in b, for strings *)
IsSubstr(a, b) ==
    \E i \in 0..(Len(b) - Len(a)) : SubSeq(b, i + 1, i + Len(a)) = a

(* x in list *)
InList(x, list) == \E i \in 1..Len(list) : list[i] = x

(* MenuItem.preparation_time default, minutes *)
DefaultPreparationTime == 5

(***************************************************************************)
(* The menu, in the insertion order of the dict built by                   *)
(* _initialize_menu. Prices are in cents: every price of the menu is a     *)
(* multiple of 0.25, so the float arithmetic of the code is exact and      *)
(* integer cents compute the same totals.                                  *)
(***************************************************************************)
menu ==
  <<
     [id |-> "esp001", name |-> <<"E","s","p","r","e","s","s","o">>,
      price |-> 350, category |-> "coffee", available |-> TRUE,
      preparation_time |-> DefaultPreparationTime,
      customizations |-> <<"extra_shot", "decaf">>],
     [id |-> "cap001", name |-> <<"C","a","p","p","u","c","c","i","n","o">>,
      price |-> 450, category |-> "coffee", available |-> TRUE,
      preparation_time |-> DefaultPreparationTime,
      customizations |-> <<"extra_shot", "decaf", "oat_milk", "almond_milk", "soy_milk">>],
     [id |-> "lat001", name |-> <<"L","a","t","t","e">>,
      price |-> 475, category |-> "coffee", available |-> TRUE,
      preparation_time |-> DefaultPreparationTime,
      customizations |-> <<"extra_shot", "decaf", "vanilla", "caramel", "oat_milk", "almond_milk">>],
     [id |-> "ame001", name |-> <<"A","m","e","r","i","c","a","n","o">>,
      price |-> 375, category |-> "coffee", available |-> TRUE,
      preparation_time |-> DefaultPreparationTime,
      customizations |-> <<"extra_shot", "decaf">>],
     [id |-> "mac001", name |-> <<"M","a","c","c","h","i","a","t","o">>,
      price |-> 425, category |-> "coffee", available |-> TRUE,
      preparation_time |-> DefaultPreparationTime,
      customizations |-> <<"extra_shot", "decaf", "caramel">>],
     [id |-> "ice001", name |-> <<"I","c","e","d"," ","C","o","f","f","e","e">>,
      price |-> 400, category |-> "cold_drinks", available |-> TRUE,
      preparation_time |-> DefaultPreparationTime,
      customizations |-> <<"extra_shot", "vanilla", "caramel", "oat_milk">>],
     [id |-> "fra001", name |-> <<"F","r","a","p","p","u","c","c","i","n","o">>,
      price |-> 550, category |-> "cold_drinks", available |-> TRUE,
      preparation_time |-> DefaultPreparationTime,
      customizations |-> <<"extra_shot", "vanilla", "caramel", "chocolate">>],
     [id |-> "smo001", name |-> <<"S","m","o","o","t","h","i","e">>,
      price |-> 600, category |-> "cold_drinks", available |-> TRUE,
      preparation_time |-> DefaultPreparationTime,
      customizations |-> <<"protein_powder", "extra_fruit">>],
     [id |-> "cro001", name |-> <<"C","r","o","i","s","s","a","n","t">>,
      price |-> 325, category |-> "pastries", available |-> TRUE,
      preparation_time |-> DefaultPreparationTime,
      customizations |-> <<>>],
     [id |-> "muf001", name |-> <<"B","l","u","e","b","e","r","r","y"," ","M","u","f","f","i","n">>,
      price |-> 275, category |-> "pastries", available |-> TRUE,
      preparation_time |-> DefaultPreparationTime,
      customizations |-> <<>>],
     [id |-> "dan001", name |-> <<"D","a","n","i","s","h">>,
      price |-> 300, category |-> "pastries", available |-> TRUE,
      preparation_time |-> DefaultPreparationTime,
      customizations |-> <<>>],
     [id |-> "bag001", name |-> <<"B","a","g","e","l">>,
      price |-> 400, category |-> "pastries", available |-> TRUE,
      preparation_time |-> DefaultPreparationTime,
      customizations |-> <<"everything", "sesame", "plain">>],
     [id |-> "san001", name |-> <<"C","l","u","b"," ","S","a","n","d","w","i","c","h">>,
      price |-> 850, category |-> "sandwiches", available |-> TRUE,
      preparation_time |-> DefaultPreparationTime,
      customizations |-> <<>>],
     [id |-> "gri001", name |-> <<"G","r","i","l","l","e","d"," ","C","h","e","e","s","e">>,
      price |-> 600, category |-> "sandwiches", available |-> TRUE,
      preparation_time |-> DefaultPreparationTime,
      customizations |-> <<>>],
     [id |-> "veg001", name |-> <<"V","e","g","g","i","e"," ","W","r","a","p">>,
      price |-> 725, category |-> "sandwiches", available |-> TRUE,
      preparation_time |-> DefaultPreparationTime,
      customizations |-> <<>>]
  >>

(***************************************************************************)
(* Optional[T]: None is the empty sequence, a value x is <<x>>.            *)
(***************************************************************************)
Some(x) == <<x>>
IsNone(o) == o = <<>>
Val(o) == o[1]

(***************************************************************************)
(* Bounds of the model.                                                    *)
(***************************************************************************)
MaxOrders == 2      \* orders created in a session
MaxLines == 2       \* lines held by the orders of a session (current and history)
MaxQty == 2         \* largest quantity a line is let grow to
MaxInflight == 2    \* process_payment calls suspended in their sleep

(* Inputs of the handlers. *)
Str_latte == <<"l","a","t","t","e">>
Str_IcedLatte == <<"I","c","e","d"," ","L","a","t","t","e">>
Str_muffin == <<"b","l","u","e","b","e","r","r","y"," ","m","u","f","f","i","n">>
Str_nonexistent == <<"x","y","z">>
Str_Sarah == <<"S","a","r","a","h">>
ItemNames == {Str_latte, Str_IcedLatte, Str_muffin, Str_nonexistent}
CustomerNames == {Str_Sarah}
Quantities == {-1, 1, 2}
CustomizationLists == {<<>>, <<"oat_milk">>, <<"extra_shot", "sprinkles">>}
NoteTexts == {""}
NewNoteTexts == {<<>>}
PaymentMethods == {"card"}
Times == {1000}

VARIABLES
    current_order,   \* CafeKioskSystem.current_order : Optional[Order]
    order_history,   \* CafeKioskSystem.order_history : List[Order]
    order_counter,   \* CafeKioskSystem.order_counter
    customer_name,   \* CafeKioskSystem.customer_name
    payments,        \* process_payment calls suspended in asyncio.sleep(2),
                     \* oldest first: the payment_method of each
    ret              \* the handler that ran last and how it returned

cartVars == <<current_order, order_history, order_counter, customer_name, payments>>

HasOrder == ~IsNone(current_order)
Cur == Val(current_order)

(* OrderItem.total_price *)
total_price(line) == menu[line.menu_item].price * line.quantity

RECURSIVE SumLines(_)
SumLines(items) ==
    IF items = <<>> THEN 0
    ELSE total_price(Head(items)) + SumLines(Tail(items))

(* str(n), as characters *)
DigitChars == <<"0","1","2","3","4","5","6","7","8","9">>
RECURSIVE DecStr(_)
DecStr(n) ==
    IF n < 10 THEN <<DigitChars[n + 1]>>
    ELSE DecStr(n \div 10) \o <<DigitChars[(n % 10) + 1]>>

RECURSIVE ZeroPad(_, _)
ZeroPad(s, width) == IF Len(s) >= width THEN s ELSE ZeroPad(<<"0">> \o s, width)

(* the id without its zero padding *)
OrderId_Unpadded(n) == <<"O","R","D">> \o DecStr(n)

(* f"ORD{n:04d}" *)
OrderId(n) == <<"O","R","D">> \o ZeroPad(DecStr(n), 4)

(* f"Customer {n}" *)
DefaultCustomer(n) == <<"C","u","s","t","o","m","e","r"," ">> \o DecStr(n)

(* customer_name if customer_name else f"Customer {self.order_counter}" *)
ChosenCustomer(cn, counter) == IF cn # <<>> THEN cn ELSE DefaultCustomer(counter)

(* the Order that start_new_order constructs *)
NewOrder(cn, counter) ==
    [id |-> OrderId(counter),
     customer_name |-> ChosenCustomer(cn, counter),
     items |-> <<>>,
     status |-> "pending",
     payment_status |-> "pending",
     total_amount |-> 0,
     estimated_ready_time |-> <<>>]

(* the lines held by the current order and the orders of the history *)
RECURSIVE HistoryLines(_)
HistoryLines(history) ==
    IF history = <<>> THEN 0
    ELSE Len(Head(history).items) + HistoryLines(Tail(history))

Ret(op, out) == [op |-> op, out |-> out]

(***************************************************************************)
(* start_new_order(customer_name)                                          *)
(***************************************************************************)
(* start_new_order with its guard left out: what C8 is checked against *)
StartNewOrder_NoGuard(cn) ==
    /\ order_counter <= MaxOrders
    /\ customer_name' = ChosenCustomer(cn, order_counter)
    /\ current_order' = Some(NewOrder(cn, order_counter))
    /\ order_counter' = order_counter + 1
    /\ ret' = Ret("start_new_order", "started")
    /\ UNCHANGED <<order_history, payments>>

StartNewOrder(cn) ==
    IF HasOrder /\ Cur.status = "pending"
    THEN /\ ret' = Ret("start_new_order", "already_active")
         /\ UNCHANGED cartVars
    ELSE /\ order_counter <= MaxOrders
         /\ customer_name' = ChosenCustomer(cn, order_counter)
         /\ current_order' = Some(NewOrder(cn, order_counter))
         /\ order_counter' = order_counter + 1
         /\ ret' = Ret("start_new_order", "started")
         /\ UNCHANGED <<order_history, payments>>

(* the fuzzy lookup of add_item_to_order: index in menu, 0 when not found *)
MatchesMenuItem(item_name, i) ==
    \/ IsSubstr(Lower(item_name), Lower(menu[i].name))
    \/ IsSubstr(Lower(menu[i].name), Lower(item_name))

FindMenuItem(item_name) ==
    IF \E i \in 1..Len(menu) : MatchesMenuItem(item_name, i)
    THEN CHOOSE i \in 1..Len(menu) :
            /\ MatchesMenuItem(item_name, i)
            /\ \A j \in 1..(i - 1) : ~MatchesMenuItem(item_name, j)
    ELSE 0

(* FindMenuItem and the one-way match of remove/modify, tabulated for the
   names the model passes *)
FoundMenuItem == [n \in ItemNames |-> FindMenuItem(n)]

NameInItem ==
    [n \in ItemNames |->
        {i \in 1..Len(menu) : IsSubstr(Lower(n), Lower(menu[i].name))}]

(* a validation that finds nothing invalid *)
invalid_customizations_None(customizations, i) == <<>>

(* [c for c in customizations if c not in menu_item.customizations] *)
invalid_customizations(customizations, i) ==
    SelectSeq(customizations, LAMBDA c : ~InList(c, menu[i].customizations))

(***************************************************************************)
(* add_item_to_order(item_name, quantity, customizations, notes).          *)
(* With no current order it first awaits start_new_order() (which does not *)
(* suspend), and only then looks the item up.                              *)
(***************************************************************************)
AddItemToOrder(item_name, quantity, customizations, notes) ==
    LET starts == ~HasOrder
        order0 == IF starts THEN NewOrder(<<>>, order_counter) ELSE Cur
        i == FoundMenuItem[item_name]
        order_item == [menu_item |-> i, quantity |-> quantity,
                       customizations |-> customizations, notes |-> notes]
    IN  /\ starts => order_counter <= MaxOrders
        /\ customer_name' = IF starts THEN ChosenCustomer(<<>>, order_counter)
                                      ELSE customer_name
        /\ order_counter' = IF starts THEN order_counter + 1 ELSE order_counter
        /\ UNCHANGED <<order_history, payments>>
        /\ IF i = 0
           THEN /\ current_order' = Some(order0)
                /\ ret' = Ret("add_item_to_order", "not_found")
           ELSE IF ~menu[i].available
           THEN /\ current_order' = Some(order0)
                /\ ret' = Ret("add_item_to_order", "unavailable")
           ELSE IF customizations # <<>> /\ invalid_customizations(customizations, i) # <<>>
           THEN /\ current_order' = Some(order0)
                /\ ret' = Ret("add_item_to_order", "invalid_customizations")
           ELSE /\ Len(order0.items) + HistoryLines(order_history) < MaxLines
                /\ current_order' =
                       Some([order0 EXCEPT
                               !.items = Append(@, order_item),
                               !.total_amount = @ + total_price(order_item)])
                /\ ret' = Ret("add_item_to_order", "added")

(* the lines of the current order that remove/modify match: item_name_lower in name.lower() *)
MatchingLines(item_name) ==
    {i \in 1..Len(Cur.items) : Cur.items[i].menu_item \in NameInItem[item_name]}

(* the last matching line instead of the first *)
LastOf(S) == CHOOSE i \in S : \A j \in S : i >= j

FirstOf(S) == CHOOSE i \in S : \A j \in S : i <= j

RemoveAt(s, i) == SubSeq(s, 1, i - 1) \o SubSeq(s, i + 1, Len(s))

(* remove_item_from_order whose reduce branch forgets total_amount: what   *)
(* C1 is checked against                                                   *)
RemoveItemFromOrder_KeepTotal(item_name, quantity) ==
    IF ~HasOrder \/ Cur.items = <<>>
    THEN /\ ret' = Ret("remove_item_from_order", "no_order_or_empty")
         /\ UNCHANGED cartVars
    ELSE IF MatchingLines(item_name) = {}
    THEN /\ ret' = Ret("remove_item_from_order", "not_in_order")
         /\ UNCHANGED cartVars
    ELSE LET i == FirstOf(MatchingLines(item_name))
             order_item == Cur.items[i]
         IN  /\ UNCHANGED <<order_history, order_counter, customer_name, payments>>
             /\ IF order_item.quantity <= quantity
                THEN /\ current_order' =
                            Some([Cur EXCEPT
                                    !.items = RemoveAt(@, i),
                                    !.total_amount = @ - total_price(order_item)])
                     /\ ret' = Ret("remove_item_from_order", "removed")
                ELSE /\ order_item.quantity - quantity <= MaxQty
                     /\ current_order' =
                            Some([Cur EXCEPT
                                    !.items[i].quantity = @ - quantity])
                     /\ ret' = Ret("remove_item_from_order", "reduced")

(***************************************************************************)
(* remove_item_from_order(item_name, quantity)                             *)
(***************************************************************************)
RemoveItemFromOrder(item_name, quantity) ==
    IF ~HasOrder \/ Cur.items = <<>>
    THEN /\ ret' = Ret("remove_item_from_order", "no_order_or_empty")
         /\ UNCHANGED cartVars
    ELSE IF MatchingLines(item_name) = {}
    THEN /\ ret' = Ret("remove_item_from_order", "not_in_order")
         /\ UNCHANGED cartVars
    ELSE LET i == FirstOf(MatchingLines(item_name))
             order_item == Cur.items[i]
         IN  /\ UNCHANGED <<order_history, order_counter, customer_name, payments>>
             /\ IF order_item.quantity <= quantity
                THEN /\ current_order' =
                            Some([Cur EXCEPT
                                    !.items = RemoveAt(@, i),
                                    !.total_amount = @ - total_price(order_item)])
                     /\ ret' = Ret("remove_item_from_order", "removed")
                ELSE /\ order_item.quantity - quantity <= MaxQty
                     /\ current_order' =
                            Some([Cur EXCEPT
                                    !.items[i].quantity = @ - quantity,
                                    !.total_amount =
                                        @ - menu[order_item.menu_item].price * quantity])
                     /\ ret' = Ret("remove_item_from_order", "reduced")

(***************************************************************************)
(* modify_order_item(item_name, new_customizations, new_notes)             *)
(***************************************************************************)
ModifyOrderItem(item_name, new_customizations, new_notes) ==
    IF ~HasOrder \/ Cur.items = <<>>
    THEN /\ ret' = Ret("modify_order_item", "no_order_or_empty")
         /\ UNCHANGED cartVars
    ELSE IF MatchingLines(item_name) = {}
    THEN /\ ret' = Ret("modify_order_item", "not_in_order")
         /\ UNCHANGED cartVars
    ELSE LET i == FirstOf(MatchingLines(item_name))
             order_item == Cur.items[i]
             customized == IF IsNone(new_customizations) THEN order_item
                           ELSE [order_item EXCEPT !.customizations = Val(new_customizations)]
             noted == IF IsNone(new_notes) THEN customized
                      ELSE [customized EXCEPT !.notes = Val(new_notes)]
         IN  IF /\ ~IsNone(new_customizations)
                /\ invalid_customizations(Val(new_customizations), order_item.menu_item) # <<>>
             THEN /\ ret' = Ret("modify_order_item", "invalid_customizations")
                  /\ UNCHANGED cartVars
             ELSE /\ current_order' = Some([Cur EXCEPT !.items[i] = noted])
                  /\ ret' = Ret("modify_order_item", "modified")
                  /\ UNCHANGED <<order_history, order_counter, customer_name, payments>>

RECURSIVE MaxPrepTime(_)
MaxPrepTime(items) ==
    IF Len(items) = 1 THEN menu[items[1].menu_item].preparation_time
    ELSE LET m == MaxPrepTime(Tail(items))
             h == menu[items[1].menu_item].preparation_time
         IN  IF h >= m THEN h ELSE m

(* confirm_order that computes the ready time but leaves the status *)
ConfirmOrder_KeepStatus(now) ==
    IF ~HasOrder \/ Cur.items = <<>>
    THEN /\ ret' = Ret("confirm_order", "no_items")
         /\ UNCHANGED cartVars
    ELSE /\ current_order' =
                Some([Cur EXCEPT
                        !.estimated_ready_time = Some(now + MaxPrepTime(Cur.items) * 60)])
         /\ ret' = Ret("confirm_order", "confirmed")
         /\ UNCHANGED <<order_history, order_counter, customer_name, payments>>

(* confirm_order that adds the preparation minutes as if they were seconds *)
ConfirmOrder_Minutes(now) ==
    IF ~HasOrder \/ Cur.items = <<>>
    THEN /\ ret' = Ret("confirm_order", "no_items")
         /\ UNCHANGED cartVars
    ELSE /\ current_order' =
                Some([Cur EXCEPT
                        !.estimated_ready_time = Some(now + MaxPrepTime(Cur.items)),
                        !.status = "confirmed"])
         /\ ret' = Ret("confirm_order", "confirmed")
         /\ UNCHANGED <<order_history, order_counter, customer_name, payments>>

(***************************************************************************)
(* confirm_order(); now is time.time()                                     *)
(***************************************************************************)
ConfirmOrder(now) ==
    IF ~HasOrder \/ Cur.items = <<>>
    THEN /\ ret' = Ret("confirm_order", "no_items")
         /\ UNCHANGED cartVars
    ELSE /\ current_order' =
                Some([Cur EXCEPT
                        !.estimated_ready_time = Some(now + MaxPrepTime(Cur.items) * 60),
                        !.status = "confirmed"])
         /\ ret' = Ret("confirm_order", "confirmed")
         /\ UNCHANGED <<order_history, order_counter, customer_name, payments>>

(***************************************************************************)
(* process_payment(payment_method, amount), up to its asyncio.sleep(2).    *)
(* amount is Optional; `if amount and ...` is Python truthiness, false for *)
(* None and for 0.                                                         *)
(***************************************************************************)
Truthy(amount) == ~IsNone(amount) /\ Val(amount) # 0

ProcessPayment(payment_method, amount) ==
    IF ~HasOrder
    THEN /\ ret' = Ret("process_payment", "no_active_order")
         /\ UNCHANGED cartVars
    ELSE IF Cur.payment_status = "completed"
    THEN /\ ret' = Ret("process_payment", "already_completed")
         /\ UNCHANGED cartVars
    ELSE IF Truthy(amount) /\ Val(amount) < Cur.total_amount
    THEN /\ ret' = Ret("process_payment", "insufficient")
         /\ UNCHANGED cartVars
    ELSE /\ Len(payments) < MaxInflight
         /\ current_order' = Some([Cur EXCEPT !.payment_status = "processing"])
         /\ payments' = Append(payments, payment_method)
         /\ ret' = Ret("process_payment", "sleeping")
         /\ UNCHANGED <<order_history, order_counter, customer_name>>

(* process_payment whose completion leaves the paid order current *)
ProcessPaymentResume_KeepCurrent ==
    /\ payments # <<>>
    /\ payments' = Tail(payments)
    /\ UNCHANGED <<order_counter, customer_name>>
    /\ IF ~HasOrder
       THEN /\ ret' = Ret("process_payment", "raised AttributeError")
            /\ UNCHANGED <<current_order, order_history>>
       ELSE /\ order_history' =
                   Append(order_history,
                          [Cur EXCEPT !.payment_status = "completed",
                                      !.status = "preparing"])
            /\ current_order' =
                   Some([Cur EXCEPT !.payment_status = "completed",
                                    !.status = "preparing"])
            /\ ret' = Ret("process_payment", "paid")

(* process_payment whose completion does not file the order *)
ProcessPaymentResume_NoHistory ==
    /\ payments # <<>>
    /\ payments' = Tail(payments)
    /\ UNCHANGED <<order_counter, customer_name, order_history>>
    /\ IF ~HasOrder
       THEN /\ ret' = Ret("process_payment", "raised AttributeError")
            /\ UNCHANGED current_order
       ELSE /\ current_order' = <<>>
            /\ ret' = Ret("process_payment", "paid")

(***************************************************************************)
(* process_payment after its sleep: the oldest suspended call resumes. It  *)
(* reads self.current_order again; when that is None by now the statement  *)
(* self.current_order.payment_status = ... raises AttributeError.          *)
(***************************************************************************)
ProcessPaymentResume ==
    /\ payments # <<>>
    /\ payments' = Tail(payments)
    /\ UNCHANGED <<order_counter, customer_name>>
    /\ IF ~HasOrder
       THEN /\ ret' = Ret("process_payment", "raised AttributeError")
            /\ UNCHANGED <<current_order, order_history>>
       ELSE /\ order_history' =
                   Append(order_history,
                          [Cur EXCEPT !.payment_status = "completed",
                                      !.status = "preparing"])
            /\ current_order' = <<>>
            /\ ret' = Ret("process_payment", "paid")

(* what cancel_order hands back: its message and, as `order`, the Order    *)
(* object it has just detached, with the status it wrote to it            *)
RetCancelled(order) ==
    [op |-> "cancel_order", out |-> "cancelled",
     order |-> [order EXCEPT !.status = "cancelled"]]

(* cancel_order that files the cancelled order in the history *)
CancelOrder_Archive ==
    IF ~HasOrder
    THEN /\ ret' = Ret("cancel_order", "no_active_order")
         /\ UNCHANGED cartVars
    ELSE /\ current_order' = <<>>
         /\ order_history' = Append(order_history, [Cur EXCEPT !.status = "cancelled"])
         /\ ret' = RetCancelled(Cur)
         /\ UNCHANGED <<order_counter, customer_name, payments>>

(***************************************************************************)
(* cancel_order(): self.current_order.status = CANCELLED, then              *)
(* self.current_order = None; nothing else keeps the object.               *)
(***************************************************************************)
CancelOrder ==
    IF ~HasOrder
    THEN /\ ret' = Ret("cancel_order", "no_active_order")
         /\ UNCHANGED cartVars
    ELSE /\ current_order' = <<>>
         /\ ret' = RetCancelled(Cur)
         /\ UNCHANGED <<order_history, order_counter, customer_name, payments>>

(***************************************************************************)
(* RobotController                                                         *)
(***************************************************************************)
MaxMoves == 2       \* movement calls suspended in their sleep
MaxPos == 3         \* |position.x| the model lets the robot reach

Distances == {1, 2}
Speeds == {0, 1}
Angles == {90}

VARIABLES
    position,        \* RobotController.position
    is_moving,       \* RobotController.is_moving
    moves            \* movement calls suspended in asyncio.sleep: the method
                     \* and what it will add to position["x"] when it resumes

robotVars == <<position, is_moving, moves>>

(***************************************************************************)
(* move_forward / move_backward up to the sleep. distance / speed raises   *)
(* ZeroDivisionError for speed = 0, after is_moving was set.               *)
(***************************************************************************)
BeginMove(op, dx, speed) ==
    IF is_moving
    THEN /\ ret' = Ret(op, "busy")
         /\ UNCHANGED robotVars
    ELSE /\ is_moving' = TRUE
         /\ UNCHANGED position
         /\ IF speed = 0
            THEN /\ ret' = Ret(op, "raised ZeroDivisionError")
                 /\ UNCHANGED moves
            ELSE /\ Len(moves) < MaxMoves
                 /\ moves' = Append(moves, [op |-> op, dx |-> dx])
                 /\ ret' = Ret(op, "sleeping")

(* move_forward with its is_moving guard left out: what C6 is checked against *)
MoveForward_NoGuard(distance, speed) ==
    /\ Len(moves) < MaxMoves
    /\ speed # 0
    /\ is_moving' = TRUE
    /\ moves' = Append(moves, [op |-> "move_forward", dx |-> distance])
    /\ ret' = Ret("move_forward", "sleeping")
    /\ UNCHANGED position

MoveForward(distance, speed) == BeginMove("move_forward", distance, speed)

MoveBackward(distance, speed) == BeginMove("move_backward", 0 - distance, speed)

(* turn_left / turn_right up to the sleep: no position change *)
BeginTurn(op, angle) ==
    IF is_moving
    THEN /\ ret' = Ret(op, "busy")
         /\ UNCHANGED robotVars
    ELSE /\ Len(moves) < MaxMoves
         /\ is_moving' = TRUE
         /\ moves' = Append(moves, [op |-> op, dx |-> 0])
         /\ ret' = Ret(op, "sleeping")
         /\ UNCHANGED position

TurnLeft(angle) == BeginTurn("turn_left", angle)

TurnRight(angle) == BeginTurn("turn_right", angle)

(* a suspended movement resumes: position["x"] += distance; is_moving = False *)
MoveResume(i) ==
    /\ i \in 1..Len(moves)
    /\ position.x + moves[i].dx \in (0 - MaxPos)..MaxPos
    /\ position' = [position EXCEPT !.x = @ + moves[i].dx]
    /\ is_moving' = FALSE
    /\ moves' = RemoveAt(moves, i)
    /\ ret' = Ret(moves[i].op, "done")

(* stop() *)
Stop ==
    /\ is_moving' = FALSE
    /\ ret' = Ret("stop", "stopped")
    /\ UNCHANGED <<position, moves>>

(***************************************************************************)
(* KioskUIController (kiosk_ui.py): the screen, the category shown and the *)
(* highlighted index. Its methods print and never suspend, so each is one  *)
(* step. Categories are strings of characters, as the names are.           *)
(***************************************************************************)
Str_coffee == <<"c","o","f","f","e","e">>
Str_cold_drinks == <<"c","o","l","d","_","d","r","i","n","k","s">>
Str_pastries == <<"p","a","s","t","r","i","e","s">>
Str_sandwiches == <<"s","a","n","d","w","i","c","h","e","s">>
Str_ColdDrinks == <<"C","o","l","d"," ","D","r","i","n","k","s">>
Str_tea == <<"t","e","a">>

(* the categories display_menu_items is called with *)
CategoryArgs == {Str_coffee, Str_ColdDrinks, Str_tea}

OrderIdArgs == {"ORD0001"}

(* s.replace(a, b) for single characters *)
ReplaceChar(s, a, b) == [i \in 1..Len(s) |-> IF s[i] = a THEN b ELSE s[i]]

(* category.lower().replace(" ", "_") *)
NormalizeCategory(category) == ReplaceChar(Lower(category), " ", "_")

(* self.current_category.replace("_", " ") *)
CategoryTitle(category) == ReplaceChar(category, "_", " ")

(* the category field of the menu items, as characters *)
CategoryChars ==
    [c \in {"coffee", "cold_drinks", "pastries", "sandwiches"} |->
        CASE c = "coffee" -> Str_coffee
          [] c = "cold_drinks" -> Str_cold_drinks
          [] c = "pastries" -> Str_pastries
          [] c = "sandwiches" -> Str_sandwiches]

(* categories = ["coffee", "cold_drinks", "pastries", "sandwiches"] *)
categories == <<Str_coffee, Str_cold_drinks, Str_pastries, Str_sandwiches>>

(* [item for item in menu.values() if item.category == category and item.available] *)
MenuItemsOf(category) ==
    SelectSeq([i \in 1..Len(menu) |-> i],
              LAMBDA i : CategoryChars[menu[i].category] = category /\ menu[i].available)

(* the values current_category takes, and their item lists, tabulated *)
KnownCategories ==
    {NormalizeCategory(c) : c \in CategoryArgs}
    \cup {NormalizeCategory(CategoryTitle(categories[i])) : i \in 1..Len(categories)}

ItemsIn == [c \in KnownCategories |-> MenuItemsOf(c)]

(* display_item_details(item.name): the first menu item whose name         *)
(* contains the name of menu item i                                        *)
DetailsByName ==
    [i \in 1..Len(menu) |->
        FirstOf({j \in 1..Len(menu) : IsSubstr(Lower(menu[i].name), Lower(menu[j].name))})]

VARIABLES
    current_state,       \* KioskUIController.current_state
    current_category,    \* KioskUIController.current_category, None at first
    highlighted_index    \* KioskUIController.highlighted_index

kioskVars == <<current_state, current_category, highlighted_index>>

KioskInit ==
    /\ current_state = "welcome"
    /\ current_category = <<>>
    /\ highlighted_index = 0

(* what a method returns when it shows an item: its message and the item *)
RetItem(op, out, item) == [op |-> op, out |-> out, item |-> item]

DisplayWelcomeScreen ==
    /\ current_state' = "welcome"
    /\ ret' = Ret("display_welcome_screen", "displayed")
    /\ UNCHANGED <<current_category, highlighted_index>>

DisplayMenuCategories ==
    /\ current_state' = "menu_categories"
    /\ ret' = Ret("display_menu_categories", "displayed")
    /\ UNCHANGED <<current_category, highlighted_index>>

(* display_menu_items(category): highlighted_index is not touched *)
DisplayMenuItems(category) ==
    /\ current_state' = "menu_items"
    /\ current_category' = Some(NormalizeCategory(category))
    /\ ret' = IF ItemsIn[NormalizeCategory(category)] = <<>>
              THEN Ret("display_menu_items", "no_items")
              ELSE Ret("display_menu_items", "displayed")
    /\ UNCHANGED highlighted_index

(* the re-display of the items screen: display_menu_items(current_category.replace("_", " ")) *)
Redisplayed(category) == Some(NormalizeCategory(CategoryTitle(Val(category))))

HighlightMenuItem(item_name) ==
    IF current_state # "menu_items"
    THEN /\ ret' = Ret("highlight_menu_item", "not_viewing_items")
         /\ UNCHANGED kioskVars
    ELSE LET menu_items == ItemsIn[Val(current_category)]
             found == {i \in 1..Len(menu_items) : menu_items[i] \in NameInItem[item_name]}
         IN  IF found = {}
             THEN /\ ret' = Ret("highlight_menu_item", "not_found")
                  /\ UNCHANGED kioskVars
             ELSE /\ highlighted_index' = FirstOf(found) - 1
                  /\ current_state' = "menu_items"
                  /\ current_category' = Redisplayed(current_category)
                  /\ ret' = RetItem("highlight_menu_item", "highlighted",
                                    menu_items[FirstOf(found)])

(* display_item_details(item_name): the screen changes before the lookup *)
DisplayItemDetails(item_name) ==
    /\ current_state' = "item_details"
    /\ ret' = IF NameInItem[item_name] = {}
              THEN Ret("display_item_details", "not_found")
              ELSE RetItem("display_item_details", "details",
                           FirstOf(NameInItem[item_name]))
    /\ UNCHANGED <<current_category, highlighted_index>>

DisplayCartView ==
    /\ current_state' = "cart_view"
    /\ ret' = Ret("display_cart_view", "displayed")
    /\ UNCHANGED <<current_category, highlighted_index>>

DisplayCheckoutScreen ==
    /\ current_state' = "checkout"
    /\ ret' = IF HasOrder THEN Ret("display_checkout_screen", "displayed")
                          ELSE Ret("display_checkout_screen", "no_order")
    /\ UNCHANGED <<current_category, highlighted_index>>

DisplayOrderConfirmation(order_id) ==
    /\ current_state' = "order_confirmation"
    /\ ret' = Ret("display_order_confirmation", "displayed")
    /\ UNCHANGED <<current_category, highlighted_index>>

(* the refresh at the end of navigate_up / navigate_down *)
Refresh ==
    /\ current_state' = current_state
    /\ current_category' = IF current_state = "menu_items"
                           THEN Redisplayed(current_category)
                           ELSE current_category

NavigateUp ==
    /\ highlighted_index' = IF highlighted_index > 0 THEN highlighted_index - 1
                                                     ELSE highlighted_index
    /\ Refresh
    /\ ret' = Ret("navigate_up", "navigated")

(* max_index of navigate_down *)
max_index ==
    IF current_state = "menu_categories" THEN 3
    ELSE IF current_state = "menu_items" THEN Len(ItemsIn[Val(current_category)]) - 1
    ELSE IF current_state = "cart_view" /\ HasOrder THEN Len(Cur.items) - 1
    ELSE 0

(* navigate_down that wraps to the first entry at the end of the list *)
NavigateDown_Wrap ==
    /\ highlighted_index' = IF highlighted_index < max_index THEN highlighted_index + 1
                                                             ELSE 0
    /\ Refresh
    /\ ret' = Ret("navigate_down", "navigated")

NavigateDown ==
    /\ highlighted_index' = IF highlighted_index < max_index THEN highlighted_index + 1
                                                             ELSE highlighted_index
    /\ Refresh
    /\ ret' = Ret("navigate_down", "navigated")

SelectHighlightedItem ==
    IF current_state = "menu_categories" /\ highlighted_index < Len(categories)
    THEN /\ highlighted_index' = 0
         /\ current_state' = "menu_items"
         /\ current_category' =
                Some(NormalizeCategory(CategoryTitle(categories[highlighted_index + 1])))
         /\ ret' = Ret("select_highlighted_item", "selected_category")
    ELSE IF /\ current_state = "menu_items"
            /\ highlighted_index < Len(ItemsIn[Val(current_category)])
    THEN /\ current_state' = "item_details"
         /\ ret' = RetItem("select_highlighted_item", "selected_item",
                           DetailsByName[ItemsIn[Val(current_category)][highlighted_index + 1]])
         /\ UNCHANGED <<current_category, highlighted_index>>
    ELSE /\ ret' = Ret("select_highlighted_item", "no_item")
         /\ UNCHANGED kioskVars

(* go_back(); on item_details with current_category still None,            *)
(* self.current_category.replace raises AttributeError after the index was *)
(* reset                                                                   *)
GoBack ==
    IF current_state = "menu_items"
    THEN /\ highlighted_index' = 0
         /\ current_state' = "menu_categories"
         /\ ret' = Ret("go_back", "to_categories")
         /\ UNCHANGED current_category
    ELSE IF current_state = "item_details"
    THEN /\ highlighted_index' = 0
         /\ IF IsNone(current_category)
            THEN /\ ret' = Ret("go_back", "raised AttributeError")
                 /\ UNCHANGED <<current_state, current_category>>
            ELSE /\ current_state' = "menu_items"
                 /\ current_category' = Redisplayed(current_category)
                 /\ ret' = Ret("go_back", "to_items")
    ELSE IF current_state \in {"cart_view", "checkout"}
    THEN /\ current_state' = "menu_categories"
         /\ ret' = Ret("go_back", "to_categories")
         /\ UNCHANGED <<current_category, highlighted_index>>
    ELSE /\ current_state' = "welcome"
         /\ ret' = Ret("go_back", "to_welcome")
         /\ UNCHANGED <<current_category, highlighted_index>>

(***************************************************************************)
(* The dispatch bridges. agent is the class that was instantiated; the     *)
(* registry holds what its setup registered, of the functions the model's  *)
(* events name.                                                            *)
(***************************************************************************)
MaxEvents == 2      \* events the realtime API delivers in a session

Agents == {"UnifiedVoiceAgent", "VoiceAIAgent", "CafeVoiceAgent", "VoiceCafeKioskAgent"}
CallIds == {"call-1", "call-2"}
FunctionNames == {"start_new_order", "stop", "unknown_fn"}
RawArguments == {"{}", "{\"bogus\": 1}", "{bad"}

(* what the entry points register: unified_main.py and cafe_voice_agent.py *)
(* the cafe and the robot schemas, main.py the robot schemas,              *)
(* voice_cafe_kiosk_demo.py its own list (no stop)                         *)
Registered(a) ==
    CASE a = "UnifiedVoiceAgent" -> <<"start_new_order", "stop">>
      [] a = "CafeVoiceAgent" -> <<"start_new_order", "stop">>
      [] a = "VoiceAIAgent" -> <<"stop">>
      [] a = "VoiceCafeKioskAgent" -> <<"start_new_order">>

(* the registry after register_function(name, getattr(system, name),       *)
(* schema) for each name of a list: the handler is the method of that name *)
FunctionsOf(names) == [n \in {names[i] : i \in 1..Len(names)} |-> n]

Schema(name, description) == [name |-> name, description |-> description]

SchemasOf(names) == [i \in 1..Len(names) |-> Schema(names[i], names[i])]

ToolCall(name, arguments, call_id) ==
    [name |-> name, arguments |-> arguments, call_id |-> call_id]

ToolCalls ==
    {ToolCall(n, a, c) : n \in FunctionNames, a \in RawArguments, c \in CallIds}

(* an event of the API: its type, the tool call it carries and whether it  *)
(* has a "delta" member (which then holds the same tool call)              *)
Event(type, call, has_delta) ==
    [type |-> type, name |-> call.name, arguments |-> call.arguments,
     call_id |-> call.call_id, delta |-> has_delta]

Events ==
    {Event("response.function_call_delta", c, TRUE) : c \in ToolCalls}
    \cup {Event("response.function_call_arguments.done", c, FALSE) : c \in ToolCalls}
    \cup {Event("response.function_call_delta", ToolCall("stop", "{}", "call-1"), FALSE),
          Event("response.function_call_arguments.done", ToolCall("stop", "", "call-1"), FALSE),
          Event("response.done", ToolCall("", "", ""), FALSE)}

VARIABLES
    agent,           \* the class of the agent object
    functions,       \* self.functions: the handler registered under each name
    function_schemas,     \* self.function_schemas
    conversation_context, \* CafeVoiceAgent.conversation_context: mode, order_in_progress
    awaiting,        \* the tool call whose handler is suspended in its sleep, if any
    message_queue,   \* UnifiedVoiceAgent.message_queue
    running,         \* self.running
    loop,            \* the handle_messages task: "polling", "stopped" or "broken"
    ws_open,         \* whether self.ws.send succeeds
    events,          \* events delivered so far
    executed,        \* handler executions so far, per call_id
    outbox,          \* the function_call_output items the last dispatch sent
    escaped          \* whether the last dispatch let an exception escape

VARIABLES
    is_speaking,          \* UnifiedVoiceAgent.is_speaking
    current_response_id,  \* UnifiedVoiceAgent.current_response_id, None at first
    interruption_enabled  \* UnifiedVoiceAgent.interruption_enabled

voiceVars == <<is_speaking, current_response_id, interruption_enabled>>

bridgeVars == <<agent, functions, function_schemas, conversation_context, awaiting,
                message_queue, running, loop, ws_open, events, executed, outbox, escaped,
                voiceVars>>

vars == <<cartVars, ret, robotVars, bridgeVars, kioskVars>>

(* json.loads(arguments): the parsed keys and their values, or            *)
(* JSONDecodeError                                                         *)
JsonLoads(arguments) ==
    CASE arguments = "{}" -> [ok |-> TRUE, keys |-> {}, val |-> <<>>]
      [] arguments = "{\"bogus\": 1}" ->
            [ok |-> TRUE, keys |-> {"bogus"}, val |-> [k \in {"bogus"} |-> 1]]
      [] arguments = "{\"item_name\": \"latte\"}" ->
            [ok |-> TRUE, keys |-> {"item_name"}, val |-> [k \in {"item_name"} |-> Str_latte]]
      [] arguments = "{\"speed\": 0}" ->
            [ok |-> TRUE, keys |-> {"speed"}, val |-> [k \in {"speed"} |-> 0]]
      [] OTHER -> [ok |-> FALSE, keys |-> {}, val |-> <<>>]

(* the keyword parameters of the registered handlers *)
Parameters(name) ==
    CASE name = "start_new_order" -> {"customer_name"}
      [] name = "add_item_to_order" -> {"item_name", "quantity", "customizations", "notes"}
      [] name = "process_payment" -> {"payment_method", "amount"}
      [] name \in {"move_forward", "move_backward"} -> {"distance", "speed"}
      [] name \in {"turn_left", "turn_right"} -> {"angle"}
      [] OTHER -> {}

(* the parameters without a default *)
Required(name) ==
    IF name = "add_item_to_order" THEN {"item_name"} ELSE {}

(* the call handler(args...) raises TypeError for a keyword it does not    *)
(* have and for a missing parameter that has no default                    *)
Accepts(name, keys) == keys \subseteq Parameters(name) /\ Required(name) \subseteq keys

(* args.get(key, default): the default of the handler's signature *)
Arg(args, key, default) == IF key \in args.keys THEN args.val[key] ELSE default

(* await self.functions[name](args...), for arguments the handler accepts, *)
(* up to the handler's return or its sleep. The default speed 0.5 is 1 in  *)
(* the model's units.                                                      *)
Invoke(func, args) ==
    CASE func = "start_new_order" -> StartNewOrder(<<>>) /\ UNCHANGED robotVars
      [] func = "add_item_to_order" ->
            AddItemToOrder(args.val["item_name"], 1, <<>>, "") /\ UNCHANGED robotVars
      [] func = "process_payment" -> ProcessPayment("card", <<>>) /\ UNCHANGED robotVars
      [] func = "cancel_order" -> CancelOrder /\ UNCHANGED robotVars
      [] func = "move_forward" -> MoveForward(1, Arg(args, "speed", 1)) /\ UNCHANGED cartVars
      [] func = "move_backward" -> MoveBackward(1, Arg(args, "speed", 1)) /\ UNCHANGED cartVars
      [] func = "turn_left" -> TurnLeft(90) /\ UNCHANGED cartVars
      [] func = "turn_right" -> TurnRight(90) /\ UNCHANGED cartVars
      [] func = "stop" -> Stop /\ UNCHANGED cartVars

Output(call_id, prefix, text) ==
    [type |-> "function_call_output", call_id |-> call_id, prefix |-> prefix, text |-> text]

NoHandlerRun ==
    UNCHANGED <<executed, cartVars, robotVars, ret, kioskVars, conversation_context, awaiting>>

Ran(call_id) == executed' = [executed EXCEPT ![call_id] = @ + 1]

(***************************************************************************)
(* UnifiedVoiceAgent.handle_function_call(data). self.ws.send raises when  *)
(* the connection is closed; raised inside the except block, the exception *)
(* leaves the method.                                                      *)
(***************************************************************************)
ReportError_Unified(call_id, exc) ==
    IF ws_open
    THEN /\ outbox' = <<Output(call_id, "Error: ", exc)>>
         /\ escaped' = FALSE
    ELSE /\ outbox' = <<>>
         /\ escaped' = TRUE

(* the exception a handler call ended with, "" when it returned *)
Raised(r) ==
    IF r.out = "raised ZeroDivisionError" THEN "ZeroDivisionError"
    ELSE IF r.out = "raised AttributeError" THEN "AttributeError"
    ELSE ""

(* handle_function_call from the end of `result = await handler(...)`: the *)
(* output when the handler returned, the except block when it raised       *)
AfterHandler_Unified(data) ==
    IF Raised(ret') # ""
    THEN ReportError_Unified(data.call_id, Raised(ret'))
    ELSE IF ws_open
    THEN /\ outbox' = <<Output(data.call_id, "", "result")>>
         /\ escaped' = FALSE
    ELSE ReportError_Unified(data.call_id, "WebSocketConnectionClosedException")

HandleFunctionCall_Unified(data) ==
    LET args == JsonLoads(data.arguments)
    IN  IF ~args.ok
        THEN /\ ReportError_Unified(data.call_id, "JSONDecodeError")
             /\ NoHandlerRun
        ELSE IF data.name \in DOMAIN functions
        THEN IF ~Accepts(data.name, args.keys)
             THEN /\ ReportError_Unified(data.call_id, "TypeError")
                  /\ NoHandlerRun
             ELSE /\ Invoke(functions[data.name], args)
                  /\ Ran(data.call_id)
                  /\ UNCHANGED conversation_context
                  /\ IF ret'.out = "sleeping"
                     THEN /\ awaiting' = <<data>>
                          /\ outbox' = <<>>
                          /\ escaped' = FALSE
                     ELSE /\ awaiting' = <<>>
                          /\ AfterHandler_Unified(data)
        ELSE /\ outbox' = <<>>
             /\ escaped' = FALSE
             /\ NoHandlerRun

(* UnifiedVoiceAgent.handle_function_call_complete(data): the same body *)
HandleFunctionCallComplete_Unified(data) ==
    LET args == JsonLoads(data.arguments)
    IN  IF ~args.ok
        THEN /\ ReportError_Unified(data.call_id, "JSONDecodeError")
             /\ NoHandlerRun
        ELSE IF data.name \in DOMAIN functions
        THEN IF ~Accepts(data.name, args.keys)
             THEN /\ ReportError_Unified(data.call_id, "TypeError")
                  /\ NoHandlerRun
             ELSE /\ Invoke(functions[data.name], args)
                  /\ Ran(data.call_id)
                  /\ UNCHANGED conversation_context
                  /\ IF ret'.out = "sleeping"
                     THEN /\ awaiting' = <<data>>
                          /\ outbox' = <<>>
                          /\ escaped' = FALSE
                     ELSE /\ awaiting' = <<>>
                          /\ AfterHandler_Unified(data)
        ELSE /\ outbox' = <<>>
             /\ escaped' = FALSE
             /\ NoHandlerRun

NothingDispatched ==
    /\ outbox' = <<>>
    /\ escaped' = FALSE
    /\ NoHandlerRun

(* a message of the interruption path sent on the websocket *)
Sent(type) == [type |-> type]

(* the speech_started branch with the interruption switch ignored *)
SpeechStarted_Always ==
    /\ NoHandlerRun
    /\ UNCHANGED voiceVars
    /\ IF is_speaking
       THEN IF ws_open
            THEN /\ outbox' = (IF ~IsNone(current_response_id)
                               THEN <<Sent("response.cancel")>> ELSE <<>>)
                              \o <<Sent("input_audio_buffer.commit")>>
                 /\ escaped' = FALSE
            ELSE /\ outbox' = <<>>
                 /\ escaped' = TRUE
       ELSE /\ outbox' = <<>>
            /\ escaped' = FALSE

(* process_message on input_audio_buffer.speech_started: cancel_response   *)
(* sends response.cancel when there is a current response id, then the     *)
(* audio output is reopened (no audio device in the model) and             *)
(* commit_audio_buffer sends input_audio_buffer.commit; a send on a closed *)
(* connection raises                                                       *)
SpeechStarted ==
    /\ NoHandlerRun
    /\ UNCHANGED voiceVars
    /\ IF is_speaking /\ interruption_enabled
       THEN IF ws_open
            THEN /\ outbox' = (IF ~IsNone(current_response_id)
                               THEN <<Sent("response.cancel")>> ELSE <<>>)
                              \o <<Sent("input_audio_buffer.commit")>>
                 /\ escaped' = FALSE
            ELSE /\ outbox' = <<>>
                 /\ escaped' = TRUE
       ELSE /\ outbox' = <<>>
            /\ escaped' = FALSE

(* UnifiedVoiceAgent.process_message(data): the branches of the tool calls *)
(* and of the interruption state                                           *)
ProcessMessage_Unified(data) ==
    IF data.type = "response.created"
    THEN /\ current_response_id' = data.response
         /\ is_speaking' = TRUE
         /\ UNCHANGED interruption_enabled
         /\ NothingDispatched
    ELSE IF data.type = "response.function_call_delta"
    THEN /\ UNCHANGED voiceVars
         /\ IF data.delta
            THEN HandleFunctionCall_Unified(data)
            ELSE NothingDispatched
    ELSE IF data.type = "response.function_call_arguments.done"
    THEN /\ UNCHANGED voiceVars
         /\ IF data.name # "" /\ data.arguments # ""
            THEN HandleFunctionCallComplete_Unified(data)
            ELSE NothingDispatched
    ELSE IF data.type \in {"response.done", "response.cancelled"}
    THEN /\ is_speaking' = FALSE
         /\ current_response_id' = <<>>
         /\ UNCHANGED interruption_enabled
         /\ NothingDispatched
    ELSE IF data.type = "input_audio_buffer.speech_started"
    THEN SpeechStarted
    ELSE /\ UNCHANGED voiceVars
         /\ NothingDispatched

(* on_message of the websocket thread: message_queue.put(data) *)
OnMessage(data) ==
    /\ agent = "UnifiedVoiceAgent"
    /\ events < MaxEvents
    /\ events' = events + 1
    /\ message_queue' = Append(message_queue, data)
    /\ UNCHANGED <<agent, functions, function_schemas, conversation_context, awaiting,
                   running, loop, ws_open, executed, outbox, escaped,
                   cartVars, robotVars, ret, kioskVars, voiceVars>>

(* a loop that takes the next message while a handler is still suspended *)
HandleMessages_NoAwait ==
    /\ agent = "UnifiedVoiceAgent"
    /\ loop = "polling"
    /\ UNCHANGED <<agent, functions, function_schemas, running, ws_open, events, kioskVars>>
    /\ IF ~running
       THEN /\ loop' = "stopped"
            /\ UNCHANGED <<message_queue, executed, outbox, escaped, cartVars, robotVars, ret,
                           conversation_context, awaiting, voiceVars>>
       ELSE /\ message_queue # <<>>
            /\ message_queue' = Tail(message_queue)
            /\ ProcessMessage_Unified(Head(message_queue))
            /\ loop' = IF escaped' THEN "broken" ELSE "polling"

(***************************************************************************)
(* One turn of the while loop of UnifiedVoiceAgent.handle_messages: the    *)
(* loop ends when running is false; a message is taken and processed; an   *)
(* exception that reaches the loop is printed and breaks it. (With the     *)
(* queue empty the turn sleeps and changes nothing.)                       *)
(***************************************************************************)
HandleMessages ==
    /\ agent = "UnifiedVoiceAgent"
    /\ loop = "polling"
    /\ awaiting = <<>>
    /\ UNCHANGED <<agent, functions, function_schemas, running, ws_open, events, kioskVars>>
    /\ IF ~running
       THEN /\ loop' = "stopped"
            /\ UNCHANGED <<message_queue, executed, outbox, escaped, cartVars, robotVars, ret,
                           conversation_context, awaiting, voiceVars>>
       ELSE /\ message_queue # <<>>
            /\ message_queue' = Tail(message_queue)
            /\ ProcessMessage_Unified(Head(message_queue))
            /\ loop' = IF escaped' THEN "broken" ELSE "polling"

(* the connection closes: from now on send raises *)
WsClose ==
    /\ ws_open
    /\ ws_open' = FALSE
    /\ UNCHANGED <<agent, functions, function_schemas, conversation_context, awaiting,
                   message_queue, running, loop, events, executed,
                   outbox, escaped, cartVars, robotVars, ret, kioskVars, voiceVars>>

(* the input loop ends (quit, KeyboardInterrupt): self.running = False *)
StopRunning ==
    /\ running
    /\ running' = FALSE
    /\ UNCHANGED <<agent, functions, function_schemas, conversation_context, awaiting,
                   message_queue, loop, ws_open, events, executed,
                   outbox, escaped, cartVars, robotVars, ret, kioskVars, voiceVars>>

(***************************************************************************)
(* VoiceAIAgent.handle_function_call(data): the except block only prints.  *)
(***************************************************************************)
HandleFunctionCall_VoiceAI(data) ==
    LET args == JsonLoads(data.arguments)
    IN  /\ escaped' = FALSE
        /\ IF ~args.ok
           THEN /\ outbox' = <<>>
                /\ NoHandlerRun
           ELSE IF data.name \in DOMAIN functions
           THEN IF ~Accepts(data.name, args.keys)
                THEN /\ outbox' = <<>>
                     /\ NoHandlerRun
                ELSE /\ Invoke(functions[data.name], args)
                     /\ Ran(data.call_id)
                     /\ UNCHANGED <<conversation_context, awaiting>>
                     /\ outbox' = IF ws_open
                                  THEN <<Output(data.call_id, "", "result")>>
                                  ELSE <<>>
           ELSE /\ outbox' = <<>>
                /\ NoHandlerRun

(***************************************************************************)
(* CafeVoiceAgent.handle_function_call(data)                               *)
(***************************************************************************)
ReportError_CafeVoice(call_id, exc) ==
    IF ws_open
    THEN /\ outbox' = <<Output(call_id, "Error: ", exc)>>
         /\ escaped' = FALSE
    ELSE /\ outbox' = <<>>
         /\ escaped' = TRUE

(* _update_context_from_function(function_name, args, result), for the    *)
(* mode and order_in_progress entries of the context                       *)
UpdateContextFromFunction(function_name) ==
    conversation_context' =
        IF function_name \in {"start_new_order", "add_item_to_order"}
        THEN [conversation_context EXCEPT !.mode = "ordering", !.order_in_progress = TRUE]
        ELSE IF function_name = "process_payment"
        THEN [conversation_context EXCEPT !.order_in_progress = FALSE]
        ELSE IF function_name = "cancel_order"
        THEN [conversation_context EXCEPT !.order_in_progress = FALSE]
        ELSE IF function_name \in {"move_forward", "move_backward", "turn_left", "turn_right"}
        THEN [conversation_context EXCEPT !.mode = "robot_control"]
        ELSE conversation_context

(* handle_function_call from the end of `result = await handler(...)`: the *)
(* context update and the output when the handler returned, the except     *)
(* block when it raised                                                    *)
AfterHandler_CafeVoice(data) ==
    IF Raised(ret') # ""
    THEN /\ ReportError_CafeVoice(data.call_id, Raised(ret'))
         /\ UNCHANGED conversation_context
    ELSE /\ UpdateContextFromFunction(data.name)
         /\ IF ws_open
            THEN /\ outbox' = <<Output(data.call_id, "", "result")>>
                 /\ escaped' = FALSE
            ELSE ReportError_CafeVoice(data.call_id, "ConnectionClosed")

HandleFunctionCall_CafeVoice(data) ==
    LET args == JsonLoads(data.arguments)
    IN  IF ~args.ok
        THEN /\ ReportError_CafeVoice(data.call_id, "JSONDecodeError")
             /\ NoHandlerRun
        ELSE IF data.name \in DOMAIN functions
        THEN IF ~Accepts(data.name, args.keys)
             THEN /\ ReportError_CafeVoice(data.call_id, "TypeError")
                  /\ NoHandlerRun
             ELSE /\ Invoke(functions[data.name], args)
                  /\ Ran(data.call_id)
                  /\ IF ret'.out = "sleeping"
                     THEN /\ awaiting' = <<data>>
                          /\ outbox' = <<>>
                          /\ escaped' = FALSE
                          /\ UNCHANGED conversation_context
                     ELSE /\ awaiting' = <<>>
                          /\ AfterHandler_CafeVoice(data)
        ELSE /\ outbox' = <<>>
             /\ escaped' = FALSE
             /\ NoHandlerRun

(* the handler that handle_function_call awaits returns from its sleep *)
ResumeHandler(func) ==
    IF func = "process_payment"
    THEN ProcessPaymentResume /\ UNCHANGED robotVars
    ELSE MoveResume(1) /\ UNCHANGED cartVars

HandleFunctionCallResume_CafeVoice ==
    /\ agent = "CafeVoiceAgent"
    /\ awaiting # <<>>
    /\ ResumeHandler(functions[awaiting[1].name])
    /\ awaiting' = <<>>
    /\ AfterHandler_CafeVoice(awaiting[1])
    /\ UNCHANGED <<agent, functions, function_schemas, message_queue, running, loop, ws_open,
                   events, executed, kioskVars, voiceVars>>

(***************************************************************************)
(* VoiceCafeKioskAgent.handle_function_call(function_call)                 *)
(***************************************************************************)
ReportError_Kiosk(call_id, exc) ==
    IF ws_open
    THEN /\ outbox' = <<Output(call_id, "Function execution error: ", exc)>>
         /\ escaped' = FALSE
    ELSE /\ outbox' = <<>>
         /\ escaped' = TRUE

(* json.loads(arguments) if arguments else {} *)
JsonLoadsOrEmpty(arguments) ==
    IF arguments = "" THEN [ok |-> TRUE, keys |-> {}, val |-> <<>>] ELSE JsonLoads(arguments)

HandleFunctionCall_Kiosk(function_call) ==
    LET args == JsonLoadsOrEmpty(function_call.arguments)
    IN  IF ~args.ok
        THEN /\ ReportError_Kiosk(function_call.call_id, "JSONDecodeError")
             /\ NoHandlerRun
        ELSE IF function_call.name \in DOMAIN functions
        THEN IF ~Accepts(function_call.name, args.keys)
             THEN /\ ReportError_Kiosk(function_call.call_id, "TypeError")
                  /\ NoHandlerRun
             ELSE /\ Invoke(functions[function_call.name], args)
                  /\ Ran(function_call.call_id)
                  /\ UNCHANGED <<conversation_context, awaiting>>
                  /\ IF ws_open
                     THEN /\ outbox' = <<Output(function_call.call_id, "", "result")>>
                          /\ escaped' = FALSE
                     ELSE ReportError_Kiosk(function_call.call_id, "ConnectionClosed")
        ELSE /\ NoHandlerRun
             /\ IF ws_open
                THEN /\ outbox' = <<Output(function_call.call_id, "Error: ",
                                           "Function not found")>>
                     /\ escaped' = FALSE
                ELSE ReportError_Kiosk(function_call.call_id, "ConnectionClosed")

(* VoiceCafeKioskAgent.handle_function_call_complete(data): the same body *)
HandleFunctionCallComplete_Kiosk(data) == HandleFunctionCall_Kiosk(data)

(***************************************************************************)
(* An event reaches an agent that reads the websocket itself:              *)
(* process_message of VoiceAIAgent (inherited by CafeVoiceAgent, which     *)
(* overrides handle_function_call), and the body of handle_messages of     *)
(* VoiceCafeKioskAgent.                                                    *)
(***************************************************************************)
ProcessMessage(data) ==
    /\ agent # "UnifiedVoiceAgent"
    /\ awaiting = <<>>
    /\ events < MaxEvents
    /\ events' = events + 1
    /\ UNCHANGED <<agent, functions, function_schemas, message_queue, running, loop, ws_open,
                   kioskVars, voiceVars>>
    /\ IF data.type = "response.function_call_delta" /\ data.delta
       THEN CASE agent = "VoiceAIAgent" -> HandleFunctionCall_VoiceAI(data)
              [] agent = "CafeVoiceAgent" -> HandleFunctionCall_CafeVoice(data)
              [] agent = "VoiceCafeKioskAgent" -> HandleFunctionCall_Kiosk(data)
       ELSE IF /\ agent = "VoiceCafeKioskAgent"
               /\ data.type = "response.function_call_arguments.done"
               /\ data.name # "" /\ data.arguments # ""
       THEN HandleFunctionCallComplete_Kiosk(data)
       ELSE NothingDispatched

(***************************************************************************)
(* The state after construction (and, for an agent, after its setup and    *)
(* the start of run()).                                                    *)
(***************************************************************************)
CartInit ==
    /\ current_order = <<>>
    /\ order_history = <<>>
    /\ order_counter = 1
    /\ customer_name = <<>>
    /\ payments = <<>>
    /\ ret = Ret("__init__", "")

RobotInit ==
    /\ position = [x |-> 0, y |-> 0, z |-> 0]
    /\ is_moving = FALSE
    /\ moves = <<>>

VoiceInit ==
    /\ is_speaking = FALSE
    /\ current_response_id = <<>>
    /\ interruption_enabled = TRUE

BridgeInit(agents) ==
    /\ agent \in agents
    /\ VoiceInit
    /\ functions = FunctionsOf(Registered(agent))
    /\ function_schemas = SchemasOf(Registered(agent))
    /\ conversation_context = [mode |-> "general", order_in_progress |-> FALSE]
    /\ awaiting = <<>>
    /\ message_queue = <<>>
    /\ running = TRUE
    /\ loop = "polling"
    /\ ws_open = TRUE
    /\ events = 0
    /\ executed = [c \in CallIds |-> 0]
    /\ outbox = <<>>
    /\ escaped = FALSE

Init == CartInit /\ RobotInit /\ KioskInit /\ BridgeInit({"UnifiedVoiceAgent"})

(* the amounts a caller may pass for the current order: None, 0, 1, and    *)
(* the amounts around its total                                            *)
Amounts ==
    LET total == IF HasOrder THEN Cur.total_amount ELSE 0
    IN  {<<>>, Some(0), Some(1), Some(total - 1), Some(total)}

(***************************************************************************)
(* The cart: the handlers of one CafeKioskSystem, called in any order and, *)
(* around the sleep of process_payment, interleaved.                       *)
(***************************************************************************)
CallStartNewOrder ==
    /\ \E cn \in CustomerNames : StartNewOrder(cn)
    /\ UNCHANGED <<robotVars, bridgeVars, kioskVars>>

CallAddItemToOrder ==
    /\ \E n \in ItemNames, q \in Quantities, c \in CustomizationLists, t \in NoteTexts :
           AddItemToOrder(n, q, c, t)
    /\ UNCHANGED <<robotVars, bridgeVars, kioskVars>>

CallRemoveItemFromOrder ==
    /\ \E n \in ItemNames, q \in Quantities : RemoveItemFromOrder(n, q)
    /\ UNCHANGED <<robotVars, bridgeVars, kioskVars>>

CallModifyOrderItem ==
    /\ \E n \in ItemNames, c \in {<<>>} \cup {Some(l) : l \in CustomizationLists},
          t \in NewNoteTexts :
           ModifyOrderItem(n, c, t)
    /\ UNCHANGED <<robotVars, bridgeVars, kioskVars>>

CallConfirmOrder ==
    /\ \E now \in Times : ConfirmOrder(now)
    /\ UNCHANGED <<robotVars, bridgeVars, kioskVars>>

CallProcessPayment ==
    /\ \E m \in PaymentMethods, a \in Amounts : ProcessPayment(m, a)
    /\ UNCHANGED <<robotVars, bridgeVars, kioskVars>>

ResumeProcessPayment ==
    /\ ProcessPaymentResume
    /\ UNCHANGED <<robotVars, bridgeVars, kioskVars>>

CallCancelOrder ==
    /\ CancelOrder
    /\ UNCHANGED <<robotVars, bridgeVars, kioskVars>>

Next ==
    \/ CallStartNewOrder
    \/ CallAddItemToOrder
    \/ CallRemoveItemFromOrder
    \/ CallModifyOrderItem
    \/ CallConfirmOrder
    \/ CallProcessPayment
    \/ ResumeProcessPayment
    \/ CallCancelOrder

Spec == Init /\ [][Next]_vars

(***************************************************************************)
(* The robot: the movement handlers of one RobotController, interleaved    *)
(* around their sleeps.                                                    *)
(***************************************************************************)
CallMoveForward ==
    /\ \E d \in Distances, s \in Speeds : MoveForward(d, s)
    /\ UNCHANGED <<cartVars, bridgeVars, kioskVars>>

CallMoveBackward ==
    /\ \E d \in Distances, s \in Speeds : MoveBackward(d, s)
    /\ UNCHANGED <<cartVars, bridgeVars, kioskVars>>

CallTurnLeft ==
    /\ \E a \in Angles : TurnLeft(a)
    /\ UNCHANGED <<cartVars, bridgeVars, kioskVars>>

CallTurnRight ==
    /\ \E a \in Angles : TurnRight(a)
    /\ UNCHANGED <<cartVars, bridgeVars, kioskVars>>

ResumeMove ==
    /\ \E i \in 1..MaxMoves : MoveResume(i)
    /\ UNCHANGED <<cartVars, bridgeVars, kioskVars>>

CallStop ==
    /\ Stop
    /\ UNCHANGED <<cartVars, bridgeVars, kioskVars>>

NextRobot ==
    \/ CallMoveForward
    \/ CallMoveBackward
    \/ CallTurnLeft
    \/ CallTurnRight
    \/ ResumeMove
    \/ CallStop

SpecRobot == Init /\ [][NextRobot]_vars

(***************************************************************************)
(* The bridges: events arrive, and the agent dispatches them.              *)
(***************************************************************************)
InitBridge == CartInit /\ RobotInit /\ KioskInit /\ BridgeInit(Agents)

CallOnMessage == \E data \in Events : OnMessage(data)
CallProcessMessage == \E data \in Events : ProcessMessage(data)

NextBridge ==
    \/ CallOnMessage
    \/ HandleMessages
    \/ CallProcessMessage
    \/ WsClose
    \/ StopRunning

SpecBridge == InitBridge /\ [][NextBridge]_vars

(***************************************************************************)
(*                          The claims                                     *)
(***************************************************************************)

(* C1: whenever a current order exists, its total_amount equals the sum    *)
(* over its lines of menu_item.price * quantity, after any sequence of     *)
(* add_item_to_order, remove_item_from_order and modify_order_item calls   *)
(* (and of every other cart handler).                                      *)
C1_TotalIsSumOfLines ==
    HasOrder => Cur.total_amount = SumLines(Cur.items)

(* a quantity was reduced and the order still has a line and a total *)
C1_Witness ==
    /\ ret = Ret("remove_item_from_order", "reduced")
    /\ HasOrder
    /\ Cur.items # <<>>
    /\ Cur.total_amount # 0

(* C2: in UnifiedVoiceAgent the handler of a tool call runs at most once   *)
(* per call_id, whatever events (function_call_delta,                      *)
(* function_call_arguments.done) carry that call_id.                       *)
C2_AtMostOncePerCallId ==
    agent = "UnifiedVoiceAgent" => \A c \in CallIds : executed[c] <= 1

(* the step hands event e to a handle_function_call / _complete *)
Dispatches(e) ==
    \/ /\ agent = "UnifiedVoiceAgent"
       /\ running
       /\ message_queue # <<>>
       /\ Head(message_queue) = e
       /\ HandleMessages
       /\ \/ e.type = "response.function_call_delta" /\ e.delta
          \/ /\ e.type = "response.function_call_arguments.done"
             /\ e.name # ""
             /\ e.arguments # ""
    \/ /\ ProcessMessage(e)
       /\ e.type = "response.function_call_delta"
       /\ e.delta

(* C3: dispatching a tool call whose name is not registered sends exactly  *)
(* one function_call_output, with the event's call_id and an error output  *)
(* saying that the function is unknown; no handler runs and the cart and   *)
(* the robot are unchanged. (Stated of the two bridges the claim is drawn  *)
(* from, UnifiedVoiceAgent and VoiceCafeKioskAgent, with the connection    *)
(* open; an output with a non-empty prefix is an error output.)            *)
C3_UnknownFunctionReported ==
    [][\A e \in Events :
          (/\ ws_open
           /\ agent \in {"UnifiedVoiceAgent", "VoiceCafeKioskAgent"}
           /\ e.name \notin DOMAIN functions
           /\ Dispatches(e))
          => /\ Len(outbox') = 1
             /\ outbox'[1].call_id = e.call_id
             /\ outbox'[1].prefix # ""
             /\ JsonLoads(e.arguments).ok => outbox'[1].text = "Function not found"
             /\ UNCHANGED <<executed, cartVars, robotVars>>]_vars

(* parsing the arguments of e fails, or the handler raises on them *)
ArgumentsFail(e) ==
    \/ ~JsonLoads(e.arguments).ok
    \/ ~Accepts(e.name, JsonLoads(e.arguments).keys)

ExceptionOf(e) ==
    IF ~JsonLoads(e.arguments).ok THEN "JSONDecodeError" ELSE "TypeError"

(* C4: in VoiceAIAgent, CafeVoiceAgent and UnifiedVoiceAgent, a tool call  *)
(* of a registered function whose arguments do not parse or whose handler  *)
(* raises gets exactly one function_call_output, with the event's call_id  *)
(* and the exception message as its output.                                *)
C4_FailureReported ==
    [][\A e \in Events :
          (/\ ws_open
           /\ agent \in {"VoiceAIAgent", "CafeVoiceAgent", "UnifiedVoiceAgent"}
           /\ e.name \in DOMAIN functions
           /\ ArgumentsFail(e)
           /\ Dispatches(e))
          => outbox' = <<Output(e.call_id, "Error: ", ExceptionOf(e))>>]_vars

(* C5: the handle_messages loop of UnifiedVoiceAgent is never ended by a   *)
(* tool call (a raising handler, a result that cannot be sent): while      *)
(* running is true the loop is still polling the queue, so that every      *)
(* message queued later is taken and processed.                            *)
C5_LoopSurvivesToolCalls ==
    (agent = "UnifiedVoiceAgent" /\ running) => loop = "polling"

(* one of the four movement methods is called *)
MovementCall ==
    \/ \E d \in Distances, s \in Speeds : MoveForward(d, s) \/ MoveBackward(d, s)
    \/ \E a \in Angles : TurnLeft(a) \/ TurnRight(a)

(* C6: move_forward, move_backward, turn_left or turn_right called while   *)
(* is_moving is true returns the busy message, leaves position and         *)
(* is_moving unchanged and suspends nothing (no movement is queued).       *)
C6_BusyMovementRejected ==
    [][(is_moving /\ MovementCall)
       => (ret'.out = "busy" /\ UNCHANGED <<position, is_moving, moves>>)]_vars

(* a movement was refused while another one was suspended in its sleep *)
C6_Witness ==
    /\ ret.out = "busy"
    /\ is_moving
    /\ moves # <<>>

(* C7: while a process_payment call is in its processing phase, a second   *)
(* process_payment call on the same order returns an error message and     *)
(* changes no order state.                                                 *)
C7_SecondPaymentRejected ==
    [][(/\ HasOrder
        /\ Cur.payment_status = "processing"
        /\ payments # <<>>
        /\ \E m \in PaymentMethods, a \in Amounts : ProcessPayment(m, a))
       => /\ ret'.op = "process_payment"
          /\ ret'.out \in {"already_completed", "insufficient", "no_active_order"}
          /\ UNCHANGED cartVars]_vars

(* C8: start_new_order called while the current order is pending returns   *)
(* the already-active message and leaves current_order, customer_name and  *)
(* order_counter unchanged.                                                *)
C8_StartWhilePendingRejected ==
    [][(/\ HasOrder
        /\ Cur.status = "pending"
        /\ \E cn \in CustomerNames : StartNewOrder(cn))
       => /\ ret' = Ret("start_new_order", "already_active")
          /\ UNCHANGED <<current_order, customer_name, order_counter>>]_vars

(* start_new_order was refused for a pending order that has a line *)
C8_Witness ==
    /\ ret = Ret("start_new_order", "already_active")
    /\ HasOrder
    /\ Cur.status = "pending"
    /\ Cur.items # <<>>

(* C9: add_item_to_order with a name that matches no menu item returns the *)
(* not-found message and leaves current_order (absent stays absent),       *)
(* order_history and order_counter unchanged.                              *)
C9_UnknownItemChangesNothing ==
    [][\A n \in ItemNames, q \in Quantities, c \in CustomizationLists, t \in NoteTexts :
          (FindMenuItem(n) = 0 /\ AddItemToOrder(n, q, c, t))
          => /\ ret' = Ret("add_item_to_order", "not_found")
             /\ UNCHANGED <<current_order, order_history, order_counter>>]_vars

(* C10: for a current order with total T > 0 and an amount a in 0..T-1,    *)
(* process_payment(method, a) returns the insufficient-payment message and *)
(* leaves current_order (its payment_status and status) and order_history  *)
(* unchanged.                                                              *)
C10_InsufficientAmountRejected ==
    [][(/\ HasOrder
        /\ Cur.total_amount > 0
        /\ \E m \in PaymentMethods, a \in 0..(Cur.total_amount - 1) :
              ProcessPayment(m, Some(a)))
       => /\ ret' = Ret("process_payment", "insufficient")
          /\ UNCHANGED <<current_order, order_history>>]_vars

Last(s) == s[Len(s)]

IsPrefix(s, t) == Len(s) <= Len(t) /\ SubSeq(t, 1, Len(s)) = s

(* a call of process_payment that has just returned its success message *)
PaymentSucceeds == ret' = Ret("process_payment", "paid")

(***************************************************************************)
(* C11: when process_payment succeeds, current_order is None afterwards,   *)
(* order_history has grown by exactly one entry, and that last entry is    *)
(* the order the call completed (its id, lines and total), with status     *)
(* preparing and payment_status completed.                                 *)
(***************************************************************************)
C11_PaidOrderFiled ==
    [][PaymentSucceeds =>
        /\ HasOrder
        /\ current_order' = <<>>
        /\ Len(order_history') = Len(order_history) + 1
        /\ IsPrefix(order_history, order_history')
        /\ Last(order_history').id = Cur.id
        /\ Last(order_history').items = Cur.items
        /\ Last(order_history').total_amount = Cur.total_amount
        /\ Last(order_history').status = "preparing"
        /\ Last(order_history').payment_status = "completed"]_vars

C11_Witness ==
    /\ ret = Ret("process_payment", "paid")
    /\ ~HasOrder
    /\ Len(order_history) = 2
    /\ Last(order_history).items # <<>>
    /\ Last(order_history).status = "preparing"
    /\ Last(order_history).payment_status = "completed"

(***************************************************************************)
(* The ordering scenario of the demo and the test: on a fresh system,      *)
(* start_new_order(name), then successful add_item_to_order calls, then    *)
(* confirm_order(), then process_payment(method), each awaited before the  *)
(* next is called. ret tells which call came last.                         *)
(***************************************************************************)
ScenarioStart ==
    /\ ret.op = "__init__"
    /\ \E cn \in CustomerNames : StartNewOrder(cn)
    /\ UNCHANGED <<robotVars, bridgeVars, kioskVars>>

ScenarioAdd ==
    /\ ret \in {Ret("start_new_order", "started"), Ret("add_item_to_order", "added")}
    /\ \E n \in ItemNames, q \in Quantities, c \in CustomizationLists, t \in NoteTexts :
           AddItemToOrder(n, q, c, t)
    /\ ret' = Ret("add_item_to_order", "added")
    /\ UNCHANGED <<robotVars, bridgeVars, kioskVars>>

ScenarioConfirm ==
    /\ ret = Ret("add_item_to_order", "added")
    /\ \E now \in Times : ConfirmOrder(now)
    /\ UNCHANGED <<robotVars, bridgeVars, kioskVars>>

ScenarioPay ==
    /\ ret = Ret("confirm_order", "confirmed")
    /\ \E m \in PaymentMethods : ProcessPayment(m, <<>>)
    /\ UNCHANGED <<robotVars, bridgeVars, kioskVars>>

ScenarioPaid ==
    /\ ret = Ret("process_payment", "sleeping")
    /\ ProcessPaymentResume
    /\ UNCHANGED <<robotVars, bridgeVars, kioskVars>>

NextScenario ==
    \/ ScenarioStart
    \/ ScenarioAdd
    \/ ScenarioConfirm
    \/ ScenarioPay
    \/ ScenarioPaid

SpecScenario == Init /\ [][NextScenario]_vars

(* the line a successful add_item_to_order(n, q, c, t) is to append *)
AddedLine(n, q, c, t) ==
    [menu_item |-> FindMenuItem(n), quantity |-> q, customizations |-> c, notes |-> t]

(***************************************************************************)
(* C12: in the scenario start_new_order(name), k >= 1 successful           *)
(* add_item_to_order calls, confirm_order(), process_payment(method) on a  *)
(* fresh system: each add appends the line of the named item, so that      *)
(* after k adds the current order has k lines and its total is the sum of  *)
(* price * quantity over them; after confirm_order the same order has      *)
(* status confirmed and estimated_ready_time set; after process_payment    *)
(* current_order is cleared and order_history is exactly one entry, that   *)
(* order, with payment_status completed.                                   *)
(***************************************************************************)
C12_OrderScenario ==
    /\ [](ret = Ret("start_new_order", "started") =>
            /\ HasOrder /\ Cur.items = <<>> /\ Cur.total_amount = 0
            /\ Cur.customer_name \in CustomerNames)
    /\ [](ret = Ret("add_item_to_order", "added") =>
            /\ HasOrder /\ Len(Cur.items) >= 1
            /\ Cur.status = "pending"
            /\ Cur.total_amount = SumLines(Cur.items)
            /\ order_history = <<>>)
    /\ [][\A n \in ItemNames, q \in Quantities, c \in CustomizationLists, t \in NoteTexts :
            (AddItemToOrder(n, q, c, t) /\ ret' = Ret("add_item_to_order", "added")) =>
                /\ HasOrder
                /\ Cur'.items = Append(Cur.items, AddedLine(n, q, c, t))
                /\ Cur'.total_amount =
                       Cur.total_amount + menu[FindMenuItem(n)].price * q]_vars
    /\ [][ret' = Ret("confirm_order", "confirmed") =>
            /\ Cur'.status = "confirmed"
            /\ ~IsNone(Cur'.estimated_ready_time)
            /\ Cur'.items = Cur.items
            /\ Cur'.total_amount = Cur.total_amount]_vars
    /\ [][ret' = Ret("process_payment", "paid") =>
            /\ current_order' = <<>>
            /\ Len(order_history') = 1
            /\ order_history'[1].id = Cur.id
            /\ order_history'[1].items = Cur.items
            /\ order_history'[1].payment_status = "completed"]_vars

C12_Witness ==
    /\ ret = Ret("process_payment", "paid")
    /\ ~HasOrder
    /\ Len(order_history) = 1
    /\ order_history[1].customer_name = Str_Sarah
    /\ Len(order_history[1].items) = 2
    /\ order_history[1].items[1].customizations = <<"oat_milk">>
    /\ order_history[1].items[2].menu_item = FindMenuItem(Str_muffin)
    /\ ~IsNone(order_history[1].estimated_ready_time)
    /\ order_history[1].payment_status = "completed"

(* the edges of the order lifecycle *)
StatusEdges ==
    {<<"pending", "confirmed">>, <<"confirmed", "preparing">>,
     <<"preparing", "ready">>, <<"ready", "delivered">>,
     <<"pending", "cancelled">>, <<"confirmed", "cancelled">>}

StatusStep(a, b) == a = b \/ <<a, b>> \in StatusEdges

(***************************************************************************)
(* C13: whatever cart operation runs, the status of every order either     *)
(* stays as it is or moves along one of the edges pending->confirmed,      *)
(* confirmed->preparing, preparing->ready, ready->delivered,               *)
(* pending->cancelled, confirmed->cancelled. The orders are the current    *)
(* one (while it stays current, when process_payment files it, and when    *)
(* cancel_order detaches it) and the entries of the history.               *)
(***************************************************************************)
C13_StatusFollowsLifecycle ==
    [][/\ (HasOrder /\ HasOrder' /\ Cur'.id = Cur.id) =>
              StatusStep(Cur.status, Cur'.status)
       /\ PaymentSucceeds =>
              StatusStep(Cur.status, Last(order_history').status)
       /\ (ret'.op = "cancel_order" /\ ret'.out = "cancelled") =>
              StatusStep(Cur.status, ret'.order.status)
       /\ \A i \in 1..Len(order_history) :
              i <= Len(order_history') =>
                  StatusStep(order_history[i].status, order_history'[i].status)]_vars

(* the payment_status changes of a successful payment *)
PaymentEdges == {<<"pending", "processing">>, <<"processing", "completed">>}

PaymentStep(a, b) == a = b \/ <<a, b>> \in PaymentEdges

(***************************************************************************)
(* C14: a process_payment call that passed its guards leaves the order     *)
(* with payment_status processing while it sleeps, where the other         *)
(* handlers see it; the order a successful call completes goes from        *)
(* processing to completed; and the payment_status of no order, current or *)
(* filed, ever changes in another way than pending -> processing or        *)
(* processing -> completed.                                                *)
(***************************************************************************)
C14_PaymentStatusSequence ==
    [][/\ ret' = Ret("process_payment", "sleeping") =>
              HasOrder' /\ Cur'.payment_status = "processing"
       /\ (HasOrder /\ HasOrder' /\ Cur'.id = Cur.id) =>
              PaymentStep(Cur.payment_status, Cur'.payment_status)
       /\ PaymentSucceeds =>
              /\ Cur.payment_status = "processing"
              /\ Last(order_history').payment_status = "completed"
       /\ \A i \in 1..Len(order_history) :
              i <= Len(order_history') =>
                  order_history'[i].payment_status = order_history[i].payment_status]_vars

(***************************************************************************)
(* C15: cancel_order with no current order returns the no-active-order     *)
(* message and changes nothing; with a current order it writes status      *)
(* cancelled to that order, sets current_order to None and leaves          *)
(* order_history and order_counter as they are: the cancelled order is     *)
(* kept nowhere.                                                           *)
(***************************************************************************)
C15_CancelDetachesOrder ==
    [][ret'.op = "cancel_order" =>
        IF ~HasOrder
        THEN /\ ret' = Ret("cancel_order", "no_active_order")
             /\ UNCHANGED cartVars
        ELSE /\ ret'.out = "cancelled"
             /\ ret'.order.id = Cur.id
             /\ ret'.order.status = "cancelled"
             /\ current_order' = <<>>
             /\ UNCHANGED <<order_history, order_counter>>
             /\ \A i \in 1..Len(order_history') : order_history'[i].id # Cur.id]_vars

C15_Witness ==
    /\ ret.op = "cancel_order"
    /\ ret.out = "cancelled"
    /\ ret.order.status = "cancelled"
    /\ ret.order.items # <<>>
    /\ ~HasOrder
    /\ order_history # <<>>

(***************************************************************************)
(* C16: over every sequence and interleaving of cart operations            *)
(* order_history only grows at its end, by at most one entry a step, and   *)
(* the entries it holds keep their status, payment_status, lines and       *)
(* total; there is at most one current order, and it is never an entry of  *)
(* the history (no entry has its id).                                      *)
(***************************************************************************)
C16_HistoryAppendOnly ==
    [][/\ Len(order_history') <= Len(order_history) + 1
       /\ IsPrefix(order_history, order_history')
       /\ \A i \in 1..Len(order_history) :
              /\ order_history'[i].status = order_history[i].status
              /\ order_history'[i].payment_status = order_history[i].payment_status
              /\ order_history'[i].items = order_history[i].items
              /\ order_history'[i].total_amount = order_history[i].total_amount
       /\ Len(current_order') <= 1
       /\ HasOrder' =>
              \A i \in 1..Len(order_history') :
                  order_history'[i].id # Cur'.id /\ order_history'[i] # Cur']_vars

C16_Witness ==
    /\ Len(order_history) = 1
    /\ order_history[1].items # <<>>
    /\ HasOrder
    /\ Cur.items # <<>>
    /\ Cur.payment_status = "processing"
    /\ Len(payments) = 2

(* the preparation times of the lines of an order *)
LinePrepTimes(items) ==
    {menu[items[i].menu_item].preparation_time : i \in 1..Len(items)}

IsMax(m, S) == m \in S /\ \A x \in S : x <= m

(***************************************************************************)
(* C17: confirm_order with no current order, or with a current order that  *)
(* has no lines, returns its error message and leaves the order, so its    *)
(* status and estimated_ready_time, as it is; otherwise it sets status to  *)
(* confirmed and estimated_ready_time to now + 60 * the largest            *)
(* preparation_time among the order's lines, and leaves the lines alone.   *)
(***************************************************************************)
C17_ConfirmSetsReadyTime ==
    [][ret'.op = "confirm_order" =>
        IF ~HasOrder \/ Cur.items = <<>>
        THEN /\ ret'.out = "no_items"
             /\ UNCHANGED cartVars
        ELSE /\ ret'.out = "confirmed"
             /\ Cur'.status = "confirmed"
             /\ \E now \in Times, m \in LinePrepTimes(Cur.items) :
                    /\ IsMax(m, LinePrepTimes(Cur.items))
                    /\ Cur'.estimated_ready_time = Some(now + 60 * m)
             /\ Cur'.items = Cur.items
             /\ Cur'.id = Cur.id]_vars

C17_Witness ==
    /\ ret = Ret("confirm_order", "confirmed")
    /\ HasOrder
    /\ Len(Cur.items) = 2
    /\ Cur.status = "confirmed"
    /\ Cur.estimated_ready_time = Some(1000 + 60 * DefaultPreparationTime)

(* the lines of the current order whose item name contains the name asked for *)
LinesNamed(n) ==
    {i \in 1..Len(Cur.items) : Cur.items[i].menu_item \in NameInItem[n]}

C19_RemoveFindsWhatAddFound ==
    [][\A n \in ItemNames, q \in Quantities :
        (/\ ret = Ret("add_item_to_order", "added")
         /\ HasOrder
         /\ Cur.items # <<>>
         /\ FoundMenuItem[n] = Last(Cur.items).menu_item
         /\ RemoveItemFromOrder(n, q)) =>
            ret'.out \in {"removed", "reduced"}]_vars

(***************************************************************************)
(* C20: whatever integer quantities add_item_to_order and                  *)
(* remove_item_from_order are called with, every line of the current order *)
(* has quantity >= 1.                                                      *)
(***************************************************************************)
C20_LineQuantitiesPositive ==
    HasOrder => \A i \in 1..Len(Cur.items) : Cur.items[i].quantity >= 1

(* the lines and the total of the current order; no order has none *)
LinesNow == IF HasOrder THEN Cur.items ELSE <<>>

TotalNow == IF HasOrder THEN Cur.total_amount ELSE 0

(***************************************************************************)
(* C21: after every add_item_to_order and modify_order_item each line's    *)
(* customizations are all among the valid customizations of its menu item, *)
(* and a call that is rejected for an invalid customization leaves the     *)
(* lines and the total of the order as they were (an add on a system with  *)
(* no order leaves the order it started without lines, total 0).           *)
(***************************************************************************)
C21_CustomizationsValid ==
    [][/\ HasOrder' =>
              \A i \in 1..Len(Cur'.items) :
                  \A k \in 1..Len(Cur'.items[i].customizations) :
                      InList(Cur'.items[i].customizations[k],
                             menu[Cur'.items[i].menu_item].customizations)
       /\ ret'.out = "invalid_customizations" =>
              /\ LinesNow' = LinesNow
              /\ TotalNow' = TotalNow
              /\ UNCHANGED order_history]_vars

(* a rejected modify_order_item on an order whose line is customized *)
C21_Witness ==
    /\ ret = Ret("modify_order_item", "invalid_customizations")
    /\ HasOrder
    /\ Len(Cur.items) = 2
    /\ Cur.items[1].customizations = <<"oat_milk">>

(* the ids of the first orders of a session, written out *)
ExpectedIds ==
    << <<"O","R","D","0","0","0","1">>, <<"O","R","D","0","0","0","2">>,
       <<"O","R","D","0","0","0","3">>, <<"O","R","D","0","0","0","4">> >>

(* this step makes a new order current *)
OrderCreated == HasOrder' /\ (~HasOrder \/ Cur'.id # Cur.id)

(***************************************************************************)
(* C22: the n-th order created in a session (by start_new_order or by the  *)
(* start that add_item_to_order makes) has the id ORD000n: a step that     *)
(* creates an order gives it the id of the number order_counter and moves  *)
(* order_counter on by one, every other step, a rejected start_new_order   *)
(* among them, leaves order_counter alone; so the ids of the current order *)
(* and of the history are all below order_counter and pairwise distinct.   *)
(***************************************************************************)
C22_OrderIdsSequential ==
    [][/\ IF OrderCreated
          THEN /\ order_counter <= Len(ExpectedIds) => Cur'.id = ExpectedIds[order_counter]
               /\ order_counter' = order_counter + 1
          ELSE order_counter' = order_counter
       /\ ret' = Ret("start_new_order", "already_active") =>
              UNCHANGED <<order_counter, current_order>>
       /\ \A i \in 1..Len(order_history') :
              /\ \E k \in 1..(order_counter' - 1) : order_history'[i].id = ExpectedIds[k]
              /\ \A j \in 1..Len(order_history') :
                     i # j => order_history'[i].id # order_history'[j].id
              /\ HasOrder' => order_history'[i].id # Cur'.id
       /\ HasOrder' => Cur'.id = ExpectedIds[order_counter' - 1]]_vars

(* the second order of a session, after a start_new_order that was turned  *)
(* away                                                                    *)
C22_Witness ==
    /\ ret = Ret("start_new_order", "already_active")
    /\ Len(order_history) = 1
    /\ order_history[1].id = ExpectedIds[1]
    /\ HasOrder
    /\ Cur.id = ExpectedIds[2]
    /\ order_counter = 3

(***************************************************************************)
(* The kiosk: the methods of one KioskUIController, called in any order    *)
(* and interleaved with the cart operations of the CafeKioskSystem it      *)
(* shows (a customer who orders a latte or a muffin, removes one, pays or  *)
(* cancels).                                                               *)
(***************************************************************************)
KioskItemNames == {Str_latte}

CallDisplayWelcomeScreen ==
    /\ DisplayWelcomeScreen
    /\ UNCHANGED <<cartVars, robotVars, bridgeVars>>

CallDisplayMenuCategories ==
    /\ DisplayMenuCategories
    /\ UNCHANGED <<cartVars, robotVars, bridgeVars>>

CallDisplayMenuItems ==
    /\ \E category \in CategoryArgs : DisplayMenuItems(category)
    /\ UNCHANGED <<cartVars, robotVars, bridgeVars>>

CallHighlightMenuItem ==
    /\ \E n \in ItemNames : HighlightMenuItem(n)
    /\ UNCHANGED <<cartVars, robotVars, bridgeVars>>

CallDisplayItemDetails ==
    /\ \E n \in ItemNames : DisplayItemDetails(n)
    /\ UNCHANGED <<cartVars, robotVars, bridgeVars>>

CallDisplayCartView ==
    /\ DisplayCartView
    /\ UNCHANGED <<cartVars, robotVars, bridgeVars>>

CallDisplayCheckoutScreen ==
    /\ DisplayCheckoutScreen
    /\ UNCHANGED <<cartVars, robotVars, bridgeVars>>

CallDisplayOrderConfirmation ==
    /\ \E order_id \in OrderIdArgs : DisplayOrderConfirmation(order_id)
    /\ UNCHANGED <<cartVars, robotVars, bridgeVars>>

CallNavigateUp ==
    /\ NavigateUp
    /\ UNCHANGED <<cartVars, robotVars, bridgeVars>>

CallNavigateDown ==
    /\ NavigateDown
    /\ UNCHANGED <<cartVars, robotVars, bridgeVars>>

CallSelectHighlightedItem ==
    /\ SelectHighlightedItem
    /\ UNCHANGED <<cartVars, robotVars, bridgeVars>>

CallGoBack ==
    /\ GoBack
    /\ UNCHANGED <<cartVars, robotVars, bridgeVars>>

CustomerStartsOrder ==
    /\ \E cn \in CustomerNames : StartNewOrder(cn)
    /\ UNCHANGED <<robotVars, bridgeVars, kioskVars>>

CustomerAddsItem ==
    /\ \E n \in KioskItemNames : AddItemToOrder(n, 1, <<>>, "")
    /\ UNCHANGED <<robotVars, bridgeVars, kioskVars>>

CustomerRemovesItem ==
    /\ \E n \in KioskItemNames : RemoveItemFromOrder(n, 1)
    /\ UNCHANGED <<robotVars, bridgeVars, kioskVars>>

CustomerPays ==
    /\ payments = <<>>
    /\ \E m \in PaymentMethods : ProcessPayment(m, <<>>)
    /\ UNCHANGED <<robotVars, bridgeVars, kioskVars>>

CustomerHasPaid ==
    /\ ProcessPaymentResume
    /\ UNCHANGED <<robotVars, bridgeVars, kioskVars>>

CustomerCancels ==
    /\ CancelOrder
    /\ UNCHANGED <<robotVars, bridgeVars, kioskVars>>

NextKiosk ==
    \/ CallDisplayWelcomeScreen
    \/ CallDisplayMenuCategories
    \/ CallDisplayMenuItems
    \/ CallHighlightMenuItem
    \/ CallDisplayItemDetails
    \/ CallDisplayCartView
    \/ CallDisplayCheckoutScreen
    \/ CallDisplayOrderConfirmation
    \/ CallNavigateUp
    \/ CallNavigateDown
    \/ CallSelectHighlightedItem
    \/ CallGoBack
    \/ CustomerStartsOrder
    \/ CustomerAddsItem
    \/ CustomerRemovesItem
    \/ CustomerPays
    \/ CustomerHasPaid
    \/ CustomerCancels

SpecKiosk == Init /\ [][NextKiosk]_vars

(* the screens that show a list, and the list's length *)
ListBacked ==
    \/ current_state = "menu_categories"
    \/ current_state = "menu_items"
    \/ current_state = "cart_view" /\ HasOrder

ListLength ==
    IF current_state = "menu_categories" THEN Len(categories)
    ELSE IF current_state = "menu_items" THEN Len(ItemsIn[Val(current_category)])
    ELSE Len(Cur.items)

(* C23: whenever the screen is backed by a (non-empty) list -- the        *)
(* categories, the items of current_category, the cart lines -- the        *)
(* highlighted index is within it: 0 <= highlighted_index <= length - 1.   *)
C23_IndexWithinList ==
    (ListBacked /\ ListLength > 0) =>
        (0 <= highlighted_index /\ highlighted_index <= ListLength - 1)

(* C24: navigate_down with the index on the last entry of the current list *)
(* and navigate_up with the index 0 leave the index, the screen and the    *)
(* category as they were; a navigation moves the index by at most one, so  *)
(* it never wraps.                                                         *)
C24_NavigateClamps ==
    [][/\ (/\ ret'.op = "navigate_down"
           /\ ListBacked
           /\ highlighted_index = ListLength - 1) => UNCHANGED kioskVars
       /\ (ret'.op = "navigate_up" /\ highlighted_index = 0) => UNCHANGED kioskVars
       /\ ret'.op = "navigate_down" =>
              highlighted_index' \in {highlighted_index, highlighted_index + 1}
       /\ ret'.op = "navigate_up" =>
              highlighted_index' \in {highlighted_index, highlighted_index - 1}]_vars

(* navigate_down was called on the last line of a one-line cart *)
C24_Witness ==
    /\ ret.op = "navigate_down"
    /\ current_state = "cart_view"
    /\ HasOrder
    /\ Len(Cur.items) = 1
    /\ highlighted_index = 0

(* the back-map of go_back *)
BackMap(screen) ==
    CASE screen = "item_details" -> "menu_items"
      [] screen = "menu_items" -> "menu_categories"
      [] screen \in {"cart_view", "checkout"} -> "menu_categories"
      [] OTHER -> "welcome"

(* C25: go_back completes in every state, and the screen after it is the   *)
(* back-map of the screen it was called on.                                *)
C25_GoBackFollowsBackMap ==
    [][ret'.op = "go_back" =>
          /\ ret'.out # "raised AttributeError"
          /\ current_state' = BackMap(current_state)]_vars

(* C26: the screen is order_confirmation only when a payment has been      *)
(* completed (order_history is not empty), and the only screen that        *)
(* follows order_confirmation is welcome.                                  *)
C26_ConfirmationOnlyAfterPayment ==
    [][/\ current_state' = "order_confirmation" => order_history' # <<>>
       /\ current_state = "order_confirmation" =>
              current_state' \in {"order_confirmation", "welcome"}]_vars

(* C27: select_highlighted_item on the categories screen shows the items   *)
(* of the category at highlighted_index and resets the index; on the items *)
(* screen it shows the details of the item at highlighted_index; on every  *)
(* other screen (an items screen of a category without items included) it  *)
(* answers that there is nothing to select and changes nothing.            *)
C27_SelectResolvesIndex ==
    [][ret'.op = "select_highlighted_item" =>
          IF current_state = "menu_categories"
          THEN /\ highlighted_index < Len(categories)
               /\ current_state' = "menu_items"
               /\ current_category' = Some(categories[highlighted_index + 1])
               /\ highlighted_index' = 0
          ELSE IF current_state = "menu_items" /\ ItemsIn[Val(current_category)] # <<>>
          THEN /\ highlighted_index < Len(ItemsIn[Val(current_category)])
               /\ current_state' = "item_details"
               /\ ret'.out = "selected_item"
               /\ ret'.item = ItemsIn[Val(current_category)][highlighted_index + 1]
          ELSE /\ ret'.out = "no_item"
               /\ UNCHANGED kioskVars]_vars

(***************************************************************************)
(* CafeVoiceAgent with the cafe and robot functions its setup_functions    *)
(* registers (those that change the conversation context, and stop): the   *)
(* API sends tool calls, the agent dispatches them one at a time.          *)
(***************************************************************************)
CafeVoiceSetup ==
    <<"start_new_order", "add_item_to_order", "process_payment", "cancel_order",
      "move_forward", "move_backward", "turn_left", "turn_right", "stop">>

CafeVoiceRawArguments == {"{}", "{\"item_name\": \"latte\"}", "{\"speed\": 0}"}

CafeVoiceEvents ==
    {Event("response.function_call_delta", ToolCall(CafeVoiceSetup[i], a, "call-1"), TRUE) :
        i \in 1..Len(CafeVoiceSetup), a \in CafeVoiceRawArguments}

InitCafeVoice ==
    /\ CartInit
    /\ RobotInit
    /\ KioskInit
    /\ VoiceInit
    /\ agent = "CafeVoiceAgent"
    /\ functions = FunctionsOf(CafeVoiceSetup)
    /\ function_schemas = SchemasOf(CafeVoiceSetup)
    /\ conversation_context = [mode |-> "general", order_in_progress |-> FALSE]
    /\ awaiting = <<>>
    /\ message_queue = <<>>
    /\ running = TRUE
    /\ loop = "polling"
    /\ ws_open = TRUE
    /\ events = 0
    /\ executed = [c \in CallIds |-> 0]
    /\ outbox = <<>>
    /\ escaped = FALSE

CafeVoiceToolCall == \E data \in CafeVoiceEvents : ProcessMessage(data)

NextCafeVoice ==
    \/ CafeVoiceToolCall
    \/ HandleFunctionCallResume_CafeVoice
    \/ WsClose

SpecCafeVoice == InitCafeVoice /\ [][NextCafeVoice]_vars

(* the step ends a dispatch whose handler was called: the handler returned *)
(* or raised at once, or it came back from its sleep                       *)
DispatchedCallEnds ==
    /\ awaiting' = <<>>
    /\ executed' # executed \/ awaiting # <<>>

(* C28: in CafeVoiceAgent, after a dispatched start_new_order or           *)
(* add_item_to_order the context has mode = ordering and order_in_progress *)
(* = true; after a dispatched process_payment or cancel_order,             *)
(* order_in_progress = false; after a dispatched move_forward,             *)
(* move_backward, turn_left or turn_right, mode = robot_control.           *)
C28_ContextFollowsDispatch ==
    [][DispatchedCallEnds =>
          /\ ret'.op \in {"start_new_order", "add_item_to_order"} =>
                 /\ conversation_context'.mode = "ordering"
                 /\ conversation_context'.order_in_progress
          /\ ret'.op \in {"process_payment", "cancel_order"} =>
                 ~conversation_context'.order_in_progress
          /\ ret'.op \in {"move_forward", "move_backward", "turn_left", "turn_right"} =>
                 conversation_context'.mode = "robot_control"]_vars

(***************************************************************************)
(* The registry: register_function(name, func, schema) of VoiceAIAgent and *)
(* UnifiedVoiceAgent (the same body), called on a new agent. A handler is  *)
(* named by the method it is; a schema by its description.                 *)
(***************************************************************************)
MaxRegistrations == 3   \* register_function calls on one agent

RegisteredNames == {"start_new_order", "stop"}
Handlers == {"start_new_order", "stop"}
Descriptions == {"d1", "d2"}

(* register_function returns None; `name` is the name it was called with *)
RetRegistered(name) == [op |-> "register_function", out |-> "None", name |-> name]

RegisterFunction(name, func, schema) ==
    /\ Len(function_schemas) < MaxRegistrations
    /\ functions' = [n \in DOMAIN functions \cup {name} |->
                        IF n = name THEN func ELSE functions[n]]
    /\ function_schemas' = Append(function_schemas, Schema(name, schema))
    /\ ret' = RetRegistered(name)
    /\ UNCHANGED <<agent, conversation_context, awaiting, message_queue, running, loop,
                   ws_open, events, executed, outbox, escaped, voiceVars>>

InitRegistry ==
    /\ CartInit
    /\ RobotInit
    /\ KioskInit
    /\ VoiceInit
    /\ agent \in {"VoiceAIAgent", "UnifiedVoiceAgent"}
    /\ functions = <<>>
    /\ function_schemas = <<>>
    /\ conversation_context = [mode |-> "general", order_in_progress |-> FALSE]
    /\ awaiting = <<>>
    /\ message_queue = <<>>
    /\ running = TRUE
    /\ loop = "polling"
    /\ ws_open = TRUE
    /\ events = 0
    /\ executed = [c \in CallIds |-> 0]
    /\ outbox = <<>>
    /\ escaped = FALSE

CallRegisterFunction ==
    /\ \E name \in RegisteredNames, func \in Handlers, schema \in Descriptions :
           RegisterFunction(name, func, schema)
    /\ UNCHANGED <<cartVars, robotVars, kioskVars>>

NextRegistry == CallRegisterFunction

SpecRegistry == InitRegistry /\ [][NextRegistry]_vars

(* C30: register_function with a name that is already registered fails and *)
(* leaves the registry as it was: the handler mapped to the name and the   *)
(* list of function schemas are unchanged (so no name appears twice in     *)
(* function_schemas).                                                      *)
C30_DuplicateNameRejected ==
    [][(ret'.op = "register_function" /\ ret'.name \in DOMAIN functions) =>
          /\ ret'.out = "raised DuplicateName"
          /\ functions' = functions
          /\ function_schemas' = function_schemas]_vars

MovementOps == {"move_forward", "move_backward", "turn_left", "turn_right"}

(* C31: an accepted movement call ends with is_moving = false: when one of *)
(* the four movement methods returns after its movement, or fails, it      *)
(* leaves is_moving false.                                                 *)
C31_MovementEndsNotMoving ==
    [][(/\ ret'.op \in MovementOps
        /\ ret'.out \in {"done", "raised ZeroDivisionError"}) => ~is_moving']_vars

(* C36: at most one movement is in flight (suspended between its           *)
(* acceptance and its completion) at a time, and is_moving is true in      *)
(* every state in which one is in flight.                                  *)
C36_OneMovementInFlight ==
    /\ Len(moves) <= 1
    /\ moves # <<>> => is_moving

(***************************************************************************)
(* The handlers whose schema declares an enum: process_payment and         *)
(* get_menu_by_category of the cart, set_led_color and play_sound of the   *)
(* robot. The API does not enforce the enum, so the handlers are called    *)
(* with values inside and outside it.                                      *)
(***************************************************************************)
Str_all == <<"a","l","l">>
Str_red == <<"r","e","d">>
Str_green == <<"g","r","e","e","n">>
Str_blue == <<"b","l","u","e">>
Str_yellow == <<"y","e","l","l","o","w">>
Str_purple == <<"p","u","r","p","l","e">>
Str_white == <<"w","h","i","t","e">>
Str_off == <<"o","f","f">>
Str_pink == <<"p","i","n","k">>
Str_beep == <<"b","e","e","p">>
Str_chirp == <<"c","h","i","r","p">>
Str_notification == <<"n","o","t","i","f","i","c","a","t","i","o","n">>
Str_alarm == <<"a","l","a","r","m">>
Str_success == <<"s","u","c","c","e","s","s">>
Str_honk == <<"h","o","n","k">>

(* the enums of the schemas *)
PaymentMethodEnum == {"card", "cash", "mobile"}
CategoryEnum == {Str_all, Str_coffee, Str_cold_drinks, Str_pastries, Str_sandwiches}
ColorEnum == {Str_red, Str_green, Str_blue, Str_yellow, Str_purple, Str_white, Str_off}
SoundEnum == {Str_beep, Str_chirp, Str_notification, Str_alarm, Str_success}

(* the values the handlers are called with *)
PaymentMethodArgs == {"card", "bitcoin"}
MenuCategoryArgs == {Str_all, Str_coffee, Str_tea}
ColorArgs == {Str_blue, Str_pink}
SoundArgs == {Str_beep, Str_honk}

(* what a handler returns, with the argument it was called with *)
RetArg(op, out, arg) == [op |-> op, out |-> out, arg |-> arg]

(* valid_colors / valid_sounds of the handlers *)
valid_colors == {Str_red, Str_green, Str_blue, Str_yellow, Str_purple, Str_white, Str_off}
valid_sounds == {Str_beep, Str_chirp, Str_notification, Str_alarm, Str_success}

(* get_menu_by_category(category): the text lists the available items of   *)
(* the categories it goes through; for a category without items it is the  *)
(* bare heading                                                            *)
MenuText(category) ==
    IF category = Str_all
    THEN MenuItemsOf(Str_coffee) \o MenuItemsOf(Str_cold_drinks)
         \o MenuItemsOf(Str_pastries) \o MenuItemsOf(Str_sandwiches)
    ELSE MenuItemsOf(Lower(category))

GetMenuByCategory(category) ==
    /\ ret' = [op |-> "get_menu_by_category", out |-> "menu", arg |-> category,
               item |-> MenuText(category)]
    /\ UNCHANGED cartVars

SetLedColor(color) ==
    /\ ret' = IF Lower(color) \notin valid_colors
              THEN RetArg("set_led_color", "invalid_color", color)
              ELSE RetArg("set_led_color", "set", color)
    /\ UNCHANGED robotVars

PlaySound(sound_type) ==
    /\ ret' = IF Lower(sound_type) \notin valid_sounds
              THEN RetArg("play_sound", "invalid_sound", sound_type)
              ELSE RetArg("play_sound", "played", sound_type)
    /\ UNCHANGED robotVars

CallProcessPaymentBy ==
    /\ payments = <<>>
    /\ \E m \in PaymentMethodArgs : ProcessPayment(m, <<>>)
    /\ UNCHANGED <<robotVars, bridgeVars, kioskVars>>

CallGetMenuByCategory ==
    /\ \E category \in MenuCategoryArgs : GetMenuByCategory(category)
    /\ UNCHANGED <<robotVars, bridgeVars, kioskVars>>

CallSetLedColor ==
    /\ \E color \in ColorArgs : SetLedColor(color)
    /\ UNCHANGED <<cartVars, bridgeVars, kioskVars>>

CallPlaySound ==
    /\ \E sound_type \in SoundArgs : PlaySound(sound_type)
    /\ UNCHANGED <<cartVars, bridgeVars, kioskVars>>

NextEnum ==
    \/ CustomerStartsOrder
    \/ CustomerAddsItem
    \/ CallProcessPaymentBy
    \/ CustomerHasPaid
    \/ CallGetMenuByCategory
    \/ CallSetLedColor
    \/ CallPlaySound

SpecEnum == Init /\ [][NextEnum]_vars

(* C32: a handler called with a value outside the enum of its schema       *)
(* returns an error outcome and changes no cart or robot state: an         *)
(* out-of-enum payment_method is never accepted by process_payment, and    *)
(* get_menu_by_category, set_led_color and play_sound answer an            *)
(* out-of-enum category, color or sound_type with an error.                *)
C32_EnumEnforcedByHandler ==
    [][/\ (ret'.op = "process_payment" /\ Len(payments') > Len(payments)) =>
              Last(payments') \in PaymentMethodEnum
       /\ (ret'.op = "get_menu_by_category" /\ ret'.arg \notin CategoryEnum) =>
              (ret'.out = "error" /\ UNCHANGED <<cartVars, robotVars>>)
       /\ (ret'.op = "set_led_color" /\ ret'.arg \notin ColorEnum) =>
              (ret'.out = "invalid_color" /\ UNCHANGED <<cartVars, robotVars>>)
       /\ (ret'.op = "play_sound" /\ ret'.arg \notin SoundEnum) =>
              (ret'.out = "invalid_sound" /\ UNCHANGED <<cartVars, robotVars>>)]_vars

(***************************************************************************)
(* UnifiedVoiceAgent with handlers that sleep: the websocket thread        *)
(* enqueues tool calls, handle_messages takes them one at a time and       *)
(* awaits each handler.                                                    *)
(***************************************************************************)
UnifiedSetup == <<"start_new_order", "process_payment", "move_forward", "stop">>

UnifiedEvents ==
    {Event("response.function_call_arguments.done", ToolCall(UnifiedSetup[i], "{}", c), FALSE) :
        i \in 1..Len(UnifiedSetup), c \in CallIds}

(* the handler that handle_function_call awaits returns from its sleep *)
HandleFunctionCallResume_Unified ==
    /\ agent = "UnifiedVoiceAgent"
    /\ loop = "polling"
    /\ awaiting # <<>>
    /\ ResumeHandler(functions[awaiting[1].name])
    /\ awaiting' = <<>>
    /\ AfterHandler_Unified(awaiting[1])
    /\ loop' = IF escaped' THEN "broken" ELSE "polling"
    /\ UNCHANGED <<agent, functions, function_schemas, conversation_context, message_queue,
                   running, ws_open, events, executed, kioskVars, voiceVars>>

InitUnified ==
    /\ CartInit
    /\ RobotInit
    /\ KioskInit
    /\ VoiceInit
    /\ agent = "UnifiedVoiceAgent"
    /\ functions = FunctionsOf(UnifiedSetup)
    /\ function_schemas = SchemasOf(UnifiedSetup)
    /\ conversation_context = [mode |-> "general", order_in_progress |-> FALSE]
    /\ awaiting = <<>>
    /\ message_queue = <<>>
    /\ running = TRUE
    /\ loop = "polling"
    /\ ws_open = TRUE
    /\ events = 0
    /\ executed = [c \in CallIds |-> 0]
    /\ outbox = <<>>
    /\ escaped = FALSE

UnifiedOnMessage == \E data \in UnifiedEvents : OnMessage(data)

NextUnified ==
    \/ UnifiedOnMessage
    \/ HandleMessages
    \/ HandleFunctionCallResume_Unified
    \/ WsClose
    \/ StopRunning

SpecUnified == InitUnified /\ [][NextUnified]_vars

(* C33: in UnifiedVoiceAgent the queue is first-in first-out (on_message   *)
(* puts at the tail, handle_messages takes the head and runs the handler   *)
(* of the message it took), and at most one tool-call handler is in        *)
(* flight: no message is taken while a handler is suspended.               *)
C33_SequentialDispatch ==
    [][/\ message_queue' # message_queue =>
              \/ message_queue # <<>> /\ message_queue' = Tail(message_queue)
              \/ /\ Len(message_queue') = Len(message_queue) + 1
                 /\ IsPrefix(message_queue, message_queue')
       /\ \A c \in CallIds : executed'[c] > executed[c] =>
              /\ message_queue # <<>>
              /\ message_queue' = Tail(message_queue)
              /\ Head(message_queue).call_id = c
              /\ ret'.op = Head(message_queue).name
       /\ Len(message_queue') < Len(message_queue) =>
              (awaiting = <<>> /\ payments = <<>> /\ moves = <<>>)
       /\ Len(payments') + Len(moves') <= 1]_vars

(* a handler is suspended in its sleep while the next message waits in the *)
(* queue                                                                   *)
C33_Witness ==
    /\ agent = "UnifiedVoiceAgent"
    /\ awaiting # <<>>
    /\ Len(payments) + Len(moves) = 1
    /\ message_queue # <<>>

(***************************************************************************)
(* Voice interruption of UnifiedVoiceAgent: responses start and end, the   *)
(* user starts speaking, and the interruption switch is turned on and off. *)
(***************************************************************************)
ResponseIds == {<<>>, <<"resp-1">>}

(* an event of the API that is not a tool call; response.created carries   *)
(* the response (whose id may be missing)                                  *)
VoiceEvent(type, response) ==
    [type |-> type, name |-> "", arguments |-> "", call_id |-> "", delta |-> FALSE,
     response |-> response]

VoiceEvents ==
    {VoiceEvent("response.created", r) : r \in ResponseIds}
    \cup {VoiceEvent(t, <<>>) : t \in {"response.done", "response.cancelled",
                                        "input_audio_buffer.speech_started"}}

EnableInterruption ==
    /\ interruption_enabled' = TRUE
    /\ ret' = Ret("enable_interruption", "None")
    /\ UNCHANGED <<is_speaking, current_response_id>>

DisableInterruption ==
    /\ interruption_enabled' = FALSE
    /\ ret' = Ret("disable_interruption", "None")
    /\ UNCHANGED <<is_speaking, current_response_id>>

CallEnableInterruption ==
    /\ EnableInterruption
    /\ UNCHANGED <<agent, functions, function_schemas, conversation_context, awaiting,
                   message_queue, running, loop, ws_open, events, executed, outbox, escaped,
                   cartVars, robotVars, kioskVars>>

CallDisableInterruption ==
    /\ DisableInterruption
    /\ UNCHANGED <<agent, functions, function_schemas, conversation_context, awaiting,
                   message_queue, running, loop, ws_open, events, executed, outbox, escaped,
                   cartVars, robotVars, kioskVars>>

VoiceOnMessage == \E data \in VoiceEvents : OnMessage(data)

NextInterruption ==
    \/ VoiceOnMessage
    \/ HandleMessages
    \/ CallEnableInterruption
    \/ CallDisableInterruption
    \/ WsClose

SpecInterruption == InitUnified /\ [][NextInterruption]_vars

(* the step takes a message from the queue and sends a message of type t *)
TakesAndSends(t) ==
    /\ Len(message_queue') < Len(message_queue)
    /\ \E i \in 1..Len(outbox') : outbox'[i].type = t

(* C34: enable_interruption / disable_interruption set interruption_enabled *)
(* to true / false; response.cancel and the commit of the audio buffer are *)
(* sent only on an input_audio_buffer.speech_started message taken while   *)
(* is_speaking and interruption_enabled are both true, so that no          *)
(* response.cancel is sent while interruption is disabled.                 *)
C34_InterruptionGated ==
    [][/\ ret'.op = "enable_interruption" => interruption_enabled'
       /\ ret'.op = "disable_interruption" => ~interruption_enabled'
       /\ (TakesAndSends("response.cancel") \/ TakesAndSends("input_audio_buffer.commit")) =>
              /\ Head(message_queue).type = "input_audio_buffer.speech_started"
              /\ is_speaking
              /\ interruption_enabled]_vars

(* the user interrupted a response: response.cancel was sent *)
C34_Witness ==
    /\ agent = "UnifiedVoiceAgent"
    /\ \E i \in 1..Len(outbox) : outbox[i].type = "response.cancel"
    /\ interruption_enabled
    /\ is_speaking

(* the current order is replaced by another one or cleared in this step *)
CurrentOrderGoes ==
    /\ HasOrder
    /\ \/ current_order' = <<>>
       \/ Val(current_order').id # Cur.id

(***************************************************************************)
(* C35: no cart operation discards an unfinished order. current_order is   *)
(* replaced or cleared only by a process_payment that succeeds (the order  *)
(* is then the last of order_history) or by a cancel_order that marks it   *)
(* cancelled; start_new_order never replaces a current order.              *)
(***************************************************************************)
C35_UnfinishedOrderKept ==
    [][CurrentOrderGoes =>
           \/ /\ ret' = Ret("process_payment", "paid")
              /\ Last(order_history').id = Cur.id
           \/ /\ ret'.op = "cancel_order"
              /\ ret'.out = "cancelled"
              /\ ret'.order.id = Cur.id]_vars

(* the handlers that edit the lines of the order *)
LineOps == {"add_item_to_order", "remove_item_from_order", "modify_order_item"}

(***************************************************************************)
(* C37: once confirm_order has set the status of the order to confirmed,   *)
(* add_item_to_order, remove_item_from_order and modify_order_item leave   *)
(* its lines and its total_amount as they are.                             *)
(***************************************************************************)
C37_ConfirmedOrderFrozen ==
    [][(/\ HasOrder
        /\ Cur.status = "confirmed"
        /\ ret'.op \in LineOps) =>
           /\ current_order' # <<>>
           /\ Val(current_order').id = Cur.id
           /\ Val(current_order').items = Cur.items
           /\ Val(current_order').total_amount = Cur.total_amount]_vars

PayerStartsOrder ==
    /\ StartNewOrder(Str_Sarah)
    /\ UNCHANGED <<robotVars, bridgeVars, kioskVars>>

PayerAddsItem ==
    /\ AddItemToOrder(Str_latte, 1, <<>>, "")
    /\ UNCHANGED <<robotVars, bridgeVars, kioskVars>>

PayerConfirms ==
    /\ ConfirmOrder(1000)
    /\ UNCHANGED <<robotVars, bridgeVars, kioskVars>>

PayerPays ==
    /\ ProcessPayment("card", <<>>)
    /\ UNCHANGED <<robotVars, bridgeVars, kioskVars>>

NextPayment ==
    \/ PayerStartsOrder
    \/ PayerAddsItem
    \/ PayerConfirms
    \/ PayerPays
    \/ ResumeProcessPayment
    \/ CallCancelOrder

SpecPayment == Init /\ [][NextPayment]_vars /\ WF_vars(ResumeProcessPayment)

(* order n is the current order and a process_payment call has set its     *)
(* payment_status to processing                                            *)
Processing(n) ==
    /\ HasOrder
    /\ Cur.id = OrderId(n)
    /\ Cur.payment_status = "processing"

(* order n is in order_history with payment_status completed *)
Filed(n) ==
    \E i \in 1..Len(order_history) :
        /\ order_history[i].id = OrderId(n)
        /\ order_history[i].payment_status = "completed"

(***************************************************************************)
(* C39: once process_payment has set payment_status of an order to         *)
(* processing, the order is eventually in order_history with               *)
(* payment_status completed, whatever cart handlers run during the delay,  *)
(* and no process_payment call raises.                                     *)
(***************************************************************************)
C39_PaymentEventuallyCompletes ==
    /\ \A n \in 1..MaxOrders : Processing(n) ~> Filed(n)
    /\ [][ret'.op = "process_payment" => Raised(ret') = ""]_vars

=============================================================================
